---- MODULE Spec2Model ----
(***************************************************************************)
(* dayssince-backend: the counters service (CountersService) over its      *)
(* relational store (prisma/schema.prisma).  Every request is a process    *)
(* that runs from one await to the next; each store call (findUnique,      *)
(* findFirst, create, update, delete) is one atomic step of the store, and *)
(* the steps of concurrent requests interleave freely.                     *)
(*                                                                         *)
(* Encoding.  Strings (names, slugs) are sequences of one-character        *)
(* strings.  An absent string is <<>>.  Dates are ticks of the clock       *)
(* `now`.  A nullable number holds Null, an absent DTO number holds Undef. *)
(* Booleans of the DTO and of the store are the strings "true"/"false"     *)
(* ("null" for a null, "undefined" for an absent DTO property).  An absent *)
(* tagIds is <<>>, a present one is <<S>> with S the set of ids.           *)
(***************************************************************************)
EXTENDS Integers, Sequences, FiniteSets, TLC

VARIABLES counters, counterTags, nextId, now, req, started, response

vars == <<counters, counterTags, nextId, now, req, started, response>>
store == <<counters, counterTags>>

(* ---------------------------------------------------------------- bounds *)
\* requests that may be in flight at once
MaxProcs == 2
\* requests issued in one behaviour
MaxRequests == 3
\* counters ever created in one behaviour (ids are never reused)
MaxCounters == 2
\* the last tick of the clock
MaxTime == 1

Null == 0 - 1
Undef == 0 - 2

Procs == 1..MaxProcs
Users == {"u1", "u2"}
Dates == 0..MaxTime
\* rows of the tags table (seeded reference data); TagIds \ Tags do not exist
Tags == {1, 2}
TagIds == {1, 2, 3}

(* --------------------------------------------------------------- strings *)
UpperSeq == <<"A","B","C","D","E","F","G","H","I","J","K","L","M",
              "N","O","P","Q","R","S","T","U","V","W","X","Y","Z">>
LowerSeq == <<"a","b","c","d","e","f","g","h","i","j","k","l","m",
              "n","o","p","q","r","s","t","u","v","w","x","y","z">>
DigitSeq == <<"0","1","2","3","4","5","6","7","8","9">>

Range(s) == {s[i] : i \in DOMAIN s}
IsUpper(ch) == ch \in Range(UpperSeq)
IsLower(ch) == ch \in Range(LowerSeq)
IsDigit(ch) == ch \in Range(DigitSeq)
IsSpace(ch) == ch = " "
toLowerCase(ch) ==
  IF IsUpper(ch) THEN LowerSeq[CHOOSE i \in DOMAIN UpperSeq : UpperSeq[i] = ch] ELSE ch

\* Number.prototype.toString for 0 <= n <= 99
toString(n) ==
  IF n < 10 THEN <<DigitSeq[n + 1]>>
  ELSE <<DigitSeq[(n \div 10) + 1], DigitSeq[(n % 10) + 1]>>

IsWordChar(ch) == IsUpper(ch) \/ IsLower(ch) \/ IsDigit(ch)

\* the remove option and strict mode together: only [A-Za-z0-9\s] survives
RECURSIVE StripStrict(_)
StripStrict(s) ==
  IF s = <<>> THEN <<>>
  ELSE IF IsWordChar(Head(s)) \/ IsSpace(Head(s))
       THEN <<Head(s)>> \o StripStrict(Tail(s))
       ELSE StripStrict(Tail(s))

RECURSIVE TrimLeft(_)
TrimLeft(s) == IF s # <<>> /\ IsSpace(Head(s)) THEN TrimLeft(Tail(s)) ELSE s

RECURSIVE TrimRight(_)
TrimRight(s) ==
  IF s # <<>> /\ IsSpace(s[Len(s)]) THEN TrimRight(SubSeq(s, 1, Len(s) - 1)) ELSE s

\* s.replace(/\s+/g, '-'): every maximal run of spaces becomes one hyphen
RECURSIVE CollapseSpaces(_)
CollapseSpaces(s) ==
  IF s = <<>> THEN <<>>
  ELSE IF IsSpace(Head(s))
       THEN <<"-">> \o CollapseSpaces(TrimLeft(s))
       ELSE <<Head(s)>> \o CollapseSpaces(Tail(s))

\* slugify(text, {lower: true, strict: true, remove: /[*+~.()'"!:@]/g,
\* replacement: '-'}) on text over letters, digits, spaces, hyphens and the
\* punctuation of the remove set: a hyphen (the replacement) is read as a
\* space, remove/strict drop everything but letters, digits and spaces, the
\* result is trimmed, runs of spaces become one hyphen, and it is lowercased.
slugify(text) ==
  LET spaced == [i \in DOMAIN text |-> IF text[i] = "-" THEN " " ELSE text[i]]
      strict == StripStrict(spaced)
      hyph   == CollapseSpaces(TrimRight(TrimLeft(strict)))
  IN  [i \in DOMAIN hyph |-> toLowerCase(hyph[i])]

Untitled == <<"u","n","t","i","t","l","e","d">>

(* ----------------------------------------------------------------- store *)
\* no row: what findUnique/findFirst resolve to when nothing matches
NoRow == [id |-> 0]

Row(id) == IF \E c \in counters : c.id = id
           THEN CHOOSE c \in counters : c.id = id
           ELSE NoRow

\* counter.findFirst({where: {slug, id: {not: exceptId}}}) finds a row;
\* exceptId = 0 is a where clause without the id condition
SlugTaken(slug, exceptId) == \E c \in counters : c.slug = slug /\ c.id # exceptId

\* counter.findUnique({where: {slug}})
RowBySlug(slug) == IF \E c \in counters : c.slug = slug
                   THEN CHOOSE c \in counters : c.slug = slug
                   ELSE NoRow

TagsOf(id) == {ct[2] : ct \in {x \in counterTags : x[1] = id}}

\* a row read or written with include: {tags: {select: {tag: true}}}: its
\* join rows come along, each holding its tag
TagObject(t) == [id |-> t]
includeCounterDetails(row, tagIds) ==
  [row |-> row, tags |-> {[tag |-> TagObject(t)] : t \in tagIds}]

\* what ct.tag evaluates to on an object without a tag property
UndefinedTag == [undefined |-> TRUE]

\* tags?.map((ct) => ct.tag): every element of tags is replaced by its tag
\* property
mapCounterToResponseType(counterWithRelations) ==
  [row |-> counterWithRelations.row,
   tags |-> {IF "tag" \in DOMAIN ct THEN ct.tag ELSE UndefinedTag :
             ct \in counterWithRelations.tags}]

NoRet == [row |-> NoRow, tags |-> {}]

\* the slug column of the tags table
TagSlug(t) == IF t = 1 THEN "health" ELSE "fitness"

(* ------------------------------------------------------------ validation *)
\* @IsNotEmpty() @MaxLength(100) name
NameAccepted(name) == Len(name) >= 1 /\ Len(name) <= 100

\* @Matches(/^[a-z0-9]+(?:-[a-z0-9]+)*$/)
SlugMatches(slug) ==
  /\ slug # <<>>
  /\ \A i \in DOMAIN slug : IsLower(slug[i]) \/ IsDigit(slug[i]) \/ slug[i] = "-"
  /\ slug[1] # "-" /\ slug[Len(slug)] # "-"
  /\ \A i \in 1..(Len(slug) - 1) : ~(slug[i] = "-" /\ slug[i + 1] = "-")

\* SlugParamDto of GET /counters/c/:slug, and the slug of the DTOs:
\* length 3 to 80 and the pattern
SlugAccepted(slug) == Len(slug) >= 3 /\ Len(slug) <= 80 /\ SlugMatches(slug)

(* -------------------------------------------------------------- requests *)
NoDto == [name |-> <<>>, description |-> <<>>, startDate |-> Undef,
          isPrivate |-> "undefined", tagIds |-> <<>>, slug |-> <<>>,
          isChallenge |-> "undefined", challengeDurationDays |-> Undef]

\* the query of GET /counters/public with the defaults of its DefaultValuePipes;
\* tags holds the slugs of the comma-separated list
NoQuery == [page |-> 1, limit |-> 12, sortBy |-> "createdAt", sortOrder |-> "desc",
            search |-> <<>>, tags |-> {}]

\* what findPublic resolves to
NoPage == [items |-> <<>>, totalItems |-> 0, totalPages |-> 0, currentPage |-> 0]

\* what findMine resolves to
NoMine == [active |-> <<>>, archived |-> <<>>]

\* a request in flight: its call (op, user, id, dto, arg, query) and its locals
Idle == [pc |-> "idle", op |-> "none", user |-> "none", id |-> 0,
         dto |-> NoDto, arg |-> Undef, snap |-> NoRow, base |-> <<>>,
         slug |-> <<>>, attempts |-> 0, date |-> Null,
         query |-> NoQuery, total |-> 0]

\* the call a process makes: the HTTP layer hands it to the service
NewCall(op, user, id, dto, arg) ==
  [Idle EXCEPT !.pc = "called", !.op = op, !.user = user, !.id = id,
               !.dto = dto, !.arg = arg]

\* the message of an exception, where the callers of one operation can tell
\* two of them apart: its text around the interpolated slug, and the slug
NoMessage == [text |-> "", slug |-> <<>>]

\* `response` is what the step just taken sent to its caller, with the call
\* it answers; a step that answers nobody leaves NoResponse
Answer(r, result, ret) ==
  [op |-> r.op, user |-> r.user, id |-> r.id, dto |-> r.dto, arg |-> r.arg,
   result |-> result, ret |-> ret, message |-> NoMessage,
   query |-> r.query, page |-> NoPage, mine |-> NoMine]
NoResponse == Answer(Idle, "none", NoRet)

\* the request returns (result "ok") or throws, and its process is free again
Finish(p, r, result, ret) ==
  /\ req' = [req EXCEPT ![p] = Idle]
  /\ response' = Answer(r, result, ret)

\* the request throws an exception with a message of its own
Throw(p, r, result, message) ==
  /\ req' = [req EXCEPT ![p] = Idle]
  /\ response' = [Answer(r, result, NoRet) EXCEPT !.message = message]

\* the request goes on to its next await
Goto(p, r) ==
  /\ req' = [req EXCEPT ![p] = r]
  /\ response' = NoResponse

\* p accepts a new call
Accepts(p) ==
  /\ req[p].pc = "idle"
  /\ started < MaxRequests
  /\ started' = started + 1

Init ==
  /\ counters = {}
  /\ counterTags = {}
  /\ nextId = 0
  /\ now = 0
  /\ req = [p \in Procs |-> Idle]
  /\ started = 0
  /\ response = NoResponse

Tick ==
  /\ now < MaxTime
  /\ now' = now + 1
  /\ response' = NoResponse
  /\ UNCHANGED <<counters, counterTags, nextId, req, started>>

(* ---------------------------------------------------- generateUniqueSlug *)
maxAttempts == 10

\* Date.now().toString().slice(-4): the last four digits of the clock
TimeSuffix(t) ==
  <<DigitSeq[((t \div 1000) % 10) + 1], DigitSeq[((t \div 100) % 10) + 1],
    DigitSeq[((t \div 10) % 10) + 1], DigitSeq[(t % 10) + 1]>>

baseSlugOf(inputText) == slugify(IF inputText = <<>> THEN Untitled ELSE inputText)

\* the locals of generateUniqueSlug(inputText, currentCounterId) at loop entry
GenEnter(r, inputText) ==
  [r EXCEPT !.pc = "gen", !.base = baseSlugOf(inputText),
            !.slug = baseSlugOf(inputText), !.attempts = 0]

\* mutant: the where clause without the id condition
GenExcludeNothing(r) == 0

\* currentCounterId: the record's own id on update, none on create
GenExclude(r) == IF r.op = "update" THEN r.id ELSE 0

\* mutant: the loop without its bound and without the fallback
GenAfterReadUnbounded(r) ==
  IF ~SlugTaken(r.slug, GenExclude(r))
  THEN [r EXCEPT !.pc = "write"]
  ELSE [r EXCEPT !.slug = r.base \o <<"-">> \o toString(r.attempts + 2),
                 !.attempts = r.attempts + 1]

\* one iteration of the loop, at its findFirst: return the candidate when no
\* other row has it, else move to the next suffix; after maxAttempts
\* collisions return the time-suffixed fallback, unchecked
GenAfterRead(r) ==
  IF ~SlugTaken(r.slug, GenExclude(r))
  THEN [r EXCEPT !.pc = "write"]
  ELSE IF r.attempts + 1 < maxAttempts
       THEN [r EXCEPT !.slug = r.base \o <<"-">> \o toString(r.attempts + 2),
                      !.attempts = r.attempts + 1]
       ELSE [r EXCEPT !.slug = r.base \o <<"-">> \o TimeSuffix(now),
                      !.attempts = r.attempts + 1, !.pc = "write"]

generateUniqueSlug(p) ==
  /\ req[p].pc = "gen"
  /\ Goto(p, GenAfterRead(req[p]))
  /\ UNCHANGED <<counters, counterTags, nextId, now, started>>

(* ---------------------------------------------------------------- create *)
Truthy(b) == b = "true"

\* days < 1 as JavaScript compares: undefined is NaN (never less), null is 0
LessThanOne(days) == IF days = Undef THEN FALSE ELSE IF days = Null THEN TRUE ELSE days < 1

\* mutant: the `< 1` test left out
ChallengeInvalidNoRange(isChallenge, days) ==
  Truthy(isChallenge) /\ (days = Undef \/ days = Null)

\* isChallenge && (challengeDurationDays === undefined || === null || < 1)
ChallengeInvalid(isChallenge, days) ==
  Truthy(isChallenge) /\ (days = Undef \/ days = Null \/ LessThanOne(days))

\* the destructuring defaults: isPrivate = false, isChallenge = false
createIsPrivate(dto) == IF dto.isPrivate = "undefined" THEN "false" ELSE dto.isPrivate
createIsChallenge(dto) == IF dto.isChallenge = "undefined" THEN "false" ELSE dto.isChallenge

CreatesInFlight == Cardinality({q \in Procs : req[q].op = "create"})

\* create(createCounterDto, userId) up to the end of its first store read:
\* the challenge validation, then the pre-check of a supplied slug (public
\* counters) or the first iteration of generateUniqueSlug(name)
createCall(p, in) ==
  \E u \in in.users, dto \in in.createDtos :
    LET r == NewCall("create", u, 0, dto, Undef)
    IN
    /\ Accepts(p)
    /\ nextId + CreatesInFlight < MaxCounters
    /\ IF ChallengeInvalid(createIsChallenge(dto), dto.challengeDurationDays)
       THEN Finish(p, r, "ValidationFailure", NoRet)
       ELSE IF ~Truthy(createIsPrivate(dto)) /\ dto.slug # <<>>
            THEN IF RowBySlug(dto.slug) # NoRow
                 THEN Finish(p, r, "Conflict", NoRet)
                 ELSE Goto(p, [r EXCEPT !.pc = "write", !.slug = dto.slug])
            ELSE Goto(p, GenAfterRead(GenEnter(r, dto.name)))
    /\ UNCHANGED <<counters, counterTags, nextId, now>>

NoError == [code |-> "none", target |-> <<>>]

\* mutant: the store without the unique index on slug
createErrorNoUniqueIndex(slug, tagIds) ==
  IF ~(tagIds \subseteq Tags) THEN [code |-> "P2025", target |-> <<>>]
  ELSE NoError

\* what counter.create throws: the unique index counters_slug_key (P2002,
\* meta.target the column list), or a tag to connect that does not exist
createError(slug, tagIds) ==
  IF SlugTaken(slug, 0) THEN [code |-> "P2002", target |-> <<"slug">>]
  ELSE IF ~(tagIds \subseteq Tags) THEN [code |-> "P2025", target |-> <<>>]
  ELSE NoError

\* mutant: the catch block that compares meta.target with the index name
translateErrorByIndexName(err) ==
  IF err.code = "P2002" /\ err.target = <<"counters_slug_key">>
  THEN "Conflict"
  ELSE "InternalFailure"

\* the catch block of create and of update
translateError(err) ==
  IF err.code = "P2002" /\ "slug" \in Range(err.target)
  THEN "Conflict"
  ELSE "InternalFailure"

DtoTags(dto) == IF dto.tagIds = <<>> THEN {} ELSE dto.tagIds[1]

\* mutant: the new row connected to a fixed user instead of the caller
createDataFixedUser(r, id) ==
  [id |-> id, userId |-> "u1", name |-> r.dto.name,
   description |-> r.dto.description, startDate |-> r.dto.startDate,
   archivedAt |-> Null, isPrivate |-> createIsPrivate(r.dto), viewCount |-> 0,
   createdAt |-> now, updatedAt |-> now, slug |-> r.slug,
   isChallenge |-> createIsChallenge(r.dto),
   challengeDurationDays |-> IF Truthy(createIsChallenge(r.dto))
                             THEN r.dto.challengeDurationDays ELSE Null,
   challengeAchievedAt |-> Null]

createData(r, id) ==
  [id |-> id, userId |-> r.user, name |-> r.dto.name,
   description |-> r.dto.description, startDate |-> r.dto.startDate,
   archivedAt |-> Null, isPrivate |-> createIsPrivate(r.dto), viewCount |-> 0,
   createdAt |-> now, updatedAt |-> now, slug |-> r.slug,
   isChallenge |-> createIsChallenge(r.dto),
   challengeDurationDays |-> IF Truthy(createIsChallenge(r.dto))
                             THEN r.dto.challengeDurationDays ELSE Null,
   challengeAchievedAt |-> Null]

createWrite(p) ==
  LET r == req[p]
      err == createError(r.slug, DtoTags(r.dto))
      row == createData(r, nextId + 1)
  IN
  /\ r.pc = "write" /\ r.op = "create"
  /\ IF err = NoError
     THEN /\ counters' = counters \cup {row}
          /\ counterTags' = counterTags \cup {<<row.id, t>> : t \in DtoTags(r.dto)}
          /\ nextId' = nextId + 1
          /\ Finish(p, r, "ok", mapCounterToResponseType(includeCounterDetails(row, DtoTags(r.dto))))
     ELSE /\ Finish(p, r, translateError(err), NoRet)
          /\ UNCHANGED <<counters, counterTags, nextId>>
  /\ UNCHANGED <<now, started>>

(* --------------------------------------------------------- findOneOrFail *)
\* mutant: the ownership check left out
findOneOrFailNoOwnerCheck(id, userId) ==
  IF Row(id) = NoRow THEN "NotFound" ELSE "ok"

\* "NotFound" when no row has the id, "Forbidden" when its owner differs
findOneOrFail(id, userId) ==
  IF Row(id) = NoRow THEN "NotFound"
  ELSE IF Row(id).userId # userId THEN "Forbidden"
  ELSE "ok"

\* what findOneOrFail resolves to: the row it read, already mapped
foundCounter(id) == mapCounterToResponseType(includeCounterDetails(Row(id), TagsOf(id)))

(* ---------------------------------------------------------------- update *)
effectiveIsChallenge(dto, existing) ==
  IF dto.isChallenge # "undefined" THEN dto.isChallenge ELSE existing.isChallenge

\* effectiveChallengeDurationDays as the validation sees it
suppliedOrStoredDays(dto, existing) ==
  IF dto.challengeDurationDays # Undef THEN dto.challengeDurationDays
  ELSE existing.challengeDurationDays

\* mutant: the duration kept when the counter is no challenge
effectiveChallengeDurationDaysKept(dto, existing) ==
  suppliedOrStoredDays(dto, existing)

effectiveChallengeDurationDays(dto, existing) ==
  IF effectiveIsChallenge(dto, existing) = "false" THEN Null
  ELSE suppliedOrStoredDays(dto, existing)

effectiveChallengeAchievedAt(dto, existing) ==
  IF effectiveIsChallenge(dto, existing) = "false" THEN Null
  ELSE IF \/ (dto.startDate # Undef /\ dto.startDate # existing.startDate)
          \/ (dto.challengeDurationDays # Undef
              /\ dto.challengeDurationDays # existing.challengeDurationDays)
       THEN Null
       ELSE existing.challengeAchievedAt

effectiveIsPrivate(dto, existing) ==
  IF dto.isPrivate # "undefined" THEN dto.isPrivate ELSE existing.isPrivate

slugNeedsUpdate(dto, existing) ==
  \/ (dto.name # <<>> /\ dto.name # existing.name)
  \/ (dto.slug # <<>> /\ dto.slug # existing.slug)
  \/ (/\ dto.isPrivate # "undefined"
      /\ ~Truthy(effectiveIsPrivate(dto, existing))
      /\ Truthy(existing.isPrivate)
      /\ dto.slug = <<>>)

\* update after findOneOrFail resolved to existingCounter and the challenge
\* validation passed: how the slug is settled
updateAfterFind(r, existing) ==
  LET dto == r.dto
      found == [r EXCEPT !.snap = existing, !.slug = existing.slug]
  IN
  IF ~slugNeedsUpdate(dto, existing) THEN [found EXCEPT !.pc = "write"]
  ELSE IF ~Truthy(effectiveIsPrivate(dto, existing)) /\ dto.slug # <<>>
       THEN IF dto.slug # existing.slug
            THEN [found EXCEPT !.pc = "precheck", !.slug = dto.slug]
            ELSE [found EXCEPT !.pc = "write", !.slug = dto.slug]
  ELSE IF ~Truthy(effectiveIsPrivate(dto, existing))
       THEN GenEnter(found, IF dto.name # <<>> THEN dto.name ELSE existing.name)
  ELSE IF dto.name # <<>> THEN GenEnter(found, dto.name)
  ELSE [found EXCEPT !.pc = "write"]

\* update(id, updateCounterDto, userId) up to the end of findOneOrFail
updateCall(p, in) ==
  \E u \in in.users, id \in 1..MaxCounters, dto \in in.updateDtos :
    LET r == NewCall("update", u, id, dto, Undef)
        existing == Row(id)
    IN
    /\ Accepts(p)
    /\ IF findOneOrFail(id, u) # "ok"
       THEN Finish(p, r, findOneOrFail(id, u), NoRet)
       ELSE IF ChallengeInvalid(effectiveIsChallenge(dto, existing),
                                suppliedOrStoredDays(dto, existing))
            THEN Finish(p, r, "ValidationFailure", NoRet)
            ELSE Goto(p, updateAfterFind(r, existing))
    /\ UNCHANGED <<counters, counterTags, nextId, now>>

\* mutant: the supplied slug taken over without the findFirst
updatePrecheckSkipped(p) ==
  /\ req[p].pc = "precheck" /\ req[p].op = "update"
  /\ Goto(p, [req[p] EXCEPT !.pc = "write"])
  /\ UNCHANGED <<counters, counterTags, nextId, now, started>>

\* findFirst({where: {slug: userProvidedSlug, id: {not: id}}})
updatePrecheck(p) ==
  LET r == req[p]
  IN
  /\ r.pc = "precheck" /\ r.op = "update"
  /\ IF SlugTaken(r.slug, r.id)
     THEN Finish(p, r, "Conflict", NoRet)
     ELSE Goto(p, [r EXCEPT !.pc = "write"])
  /\ UNCHANGED <<counters, counterTags, nextId, now, started>>

\* the row after counter.update({where: {id}, data}): data holds name,
\* description, isPrivate and startDate only when the DTO has them, and
\* always slug and the three challenge fields; the store stamps updatedAt
updateData(row, r) ==
  [row EXCEPT
     !.name = IF r.dto.name # <<>> THEN r.dto.name ELSE @,
     !.description = IF r.dto.description # <<>> THEN r.dto.description ELSE @,
     !.slug = r.slug,
     !.isPrivate = IF r.dto.isPrivate # "undefined"
                   THEN effectiveIsPrivate(r.dto, r.snap) ELSE @,
     !.startDate = IF r.dto.startDate # Undef THEN r.dto.startDate ELSE @,
     !.isChallenge = effectiveIsChallenge(r.dto, r.snap),
     !.challengeDurationDays = effectiveChallengeDurationDays(r.dto, r.snap),
     !.challengeAchievedAt = effectiveChallengeAchievedAt(r.dto, r.snap),
     !.updatedAt = now]

\* what counter.update throws: no row with the id (P2025), the unique index
\* on slug (P2002), or a tag to connect that does not exist (P2025)
updateError(id, slug, tagIds) ==
  IF Row(id) = NoRow THEN [code |-> "P2025", target |-> <<>>]
  ELSE IF SlugTaken(slug, id) THEN [code |-> "P2002", target |-> <<"slug">>]
  ELSE IF ~(tagIds \subseteq Tags) THEN [code |-> "P2025", target |-> <<>>]
  ELSE NoError

\* mutant: tags: {create: [...]} without deleteMany
updateTagsNoDelete(id, dto) ==
  IF dto.tagIds = <<>> THEN counterTags
  ELSE counterTags \cup {<<id, t>> : t \in DtoTags(dto)}

\* tags: {deleteMany: {}, create: [...]} when tagIds is present
updateTags(id, dto) ==
  IF dto.tagIds = <<>> THEN counterTags
  ELSE {ct \in counterTags : ct[1] # id} \cup {<<id, t>> : t \in DtoTags(dto)}

updateWrite(p) ==
  LET r == req[p]
      err == updateError(r.id, r.slug, DtoTags(r.dto))
      row == updateData(Row(r.id), r)
      tags == updateTags(r.id, r.dto)
  IN
  /\ r.pc = "write" /\ r.op = "update"
  /\ IF err = NoError
     THEN /\ counters' = (counters \ {Row(r.id)}) \cup {row}
          /\ counterTags' = tags
          /\ Finish(p, r, "ok", mapCounterToResponseType(
                      includeCounterDetails(row, {ct[2] : ct \in {x \in tags : x[1] = r.id}})))
     ELSE /\ Finish(p, r, translateError(err), NoRet)
          /\ UNCHANGED <<counters, counterTags>>
  /\ UNCHANGED <<nextId, now, started>>

(* --------------------------------------------------------------- archive *)
\* new Date(text) of a text that is no date: getTime() is NaN
InvalidDate == 0 - 3

\* archive(id, userId, archiveDate) up to the end of findOneOrFail
archiveCall(p, in) ==
  \E u \in in.users, id \in 1..MaxCounters, archiveDate \in in.archiveDates :
    LET r == NewCall("archive", u, id, NoDto, archiveDate)
    IN
    /\ Accepts(p)
    /\ IF findOneOrFail(id, u) # "ok"
       THEN Finish(p, r, findOneOrFail(id, u), NoRet)
       ELSE IF Row(id).archivedAt # Null
            THEN Finish(p, r, "ok", mapCounterToResponseType(foundCounter(id)))
            ELSE Goto(p, [r EXCEPT !.pc = "check", !.snap = Row(id)])
    /\ UNCHANGED <<counters, counterTags, nextId, now>>

\* archiveDate instanceof Date && !isNaN(archiveDate.getTime()) ? archiveDate : new Date()
finalArchiveDate(archiveDate, clock) ==
  IF archiveDate # Undef /\ archiveDate # InvalidDate THEN archiveDate ELSE clock

\* mutant: the check against the future left out
archiveDateRejectedNoFuture(startDate, date, clock) == startDate > date

\* the two range checks, against the start date that was read and the clock
archiveDateRejected(startDate, date, clock) == startDate > date \/ date > clock

\* the continuation after findOneOrFail: it reads the clock
archiveCheck(p) ==
  LET r == req[p]
      date == finalArchiveDate(r.arg, now)
  IN
  /\ r.pc = "check" /\ r.op = "archive"
  /\ IF archiveDateRejected(r.snap.startDate, date, now)
     THEN Finish(p, r, "ValidationFailure", NoRet)
     ELSE Goto(p, [r EXCEPT !.pc = "write", !.date = date])
  /\ UNCHANGED <<counters, counterTags, nextId, now, started>>

\* mutant: an upsert in place of the update, writing the counter that was
\* read when the row is gone
setArchivedAtUpsert(p, value) ==
  LET r == req[p]
      old == IF Row(r.id) = NoRow THEN r.snap ELSE Row(r.id)
      row == [old EXCEPT !.archivedAt = value, !.updatedAt = now]
  IN
  /\ counters' = (counters \ {Row(r.id)}) \cup {row}
  /\ Finish(p, r, "ok", mapCounterToResponseType(includeCounterDetails(row, TagsOf(r.id))))

\* counter.update({where: {id}, data: {archivedAt}}) outside any try: a
\* missing row (P2025) reaches the caller as an unclassified error
setArchivedAt(p, value) ==
  LET r == req[p]
      row == [Row(r.id) EXCEPT !.archivedAt = value, !.updatedAt = now]
  IN
  IF Row(r.id) = NoRow
  THEN /\ Finish(p, r, "InternalFailure", NoRet)
       /\ UNCHANGED counters
  ELSE /\ counters' = (counters \ {Row(r.id)}) \cup {row}
       /\ Finish(p, r, "ok", mapCounterToResponseType(includeCounterDetails(row, TagsOf(r.id))))

archiveWrite(p) ==
  /\ req[p].pc = "write" /\ req[p].op = "archive"
  /\ setArchivedAt(p, req[p].date)
  /\ UNCHANGED <<counterTags, nextId, now, started>>

(* ------------------------------------------------------------- unarchive *)
unarchiveCall(p, in) ==
  \E u \in in.users, id \in 1..MaxCounters :
    LET r == NewCall("unarchive", u, id, NoDto, Undef)
    IN
    /\ Accepts(p)
    /\ IF findOneOrFail(id, u) # "ok"
       THEN Finish(p, r, findOneOrFail(id, u), NoRet)
       ELSE IF Row(id).archivedAt = Null
            THEN Finish(p, r, "ok", mapCounterToResponseType(foundCounter(id)))
            ELSE Goto(p, [r EXCEPT !.pc = "write", !.snap = Row(id)])
    /\ UNCHANGED <<counters, counterTags, nextId, now>>

unarchiveWrite(p) ==
  /\ req[p].pc = "write" /\ req[p].op = "unarchive"
  /\ setArchivedAt(p, Null)
  /\ UNCHANGED <<counterTags, nextId, now, started>>

(* ---------------------------------------------------------------- remove *)
removeCall(p, in) ==
  \E u \in in.users, id \in 1..MaxCounters :
    LET r == NewCall("remove", u, id, NoDto, Undef)
    IN
    /\ Accepts(p)
    /\ IF findOneOrFail(id, u) # "ok"
       THEN Finish(p, r, findOneOrFail(id, u), NoRet)
       ELSE Goto(p, [r EXCEPT !.pc = "write", !.snap = Row(id)])
    /\ UNCHANGED <<counters, counterTags, nextId, now>>

\* mutant: the foreign key of counter_tags without ON DELETE CASCADE
removeWriteNoCascade(p) ==
  LET r == req[p]
  IN
  /\ r.pc = "write" /\ r.op = "remove"
  /\ IF Row(r.id) = NoRow
     THEN /\ Finish(p, r, "InternalFailure", NoRet)
          /\ UNCHANGED <<counters, counterTags>>
     ELSE /\ counters' = counters \ {Row(r.id)}
          /\ UNCHANGED counterTags
          /\ Finish(p, r, "ok", NoRet)
  /\ UNCHANGED <<nextId, now, started>>

\* counter.delete({where: {id}}); counter_tags rows go with it (ON DELETE CASCADE)
removeWrite(p) ==
  LET r == req[p]
  IN
  /\ r.pc = "write" /\ r.op = "remove"
  /\ IF Row(r.id) = NoRow
     THEN /\ Finish(p, r, "InternalFailure", NoRet)
          /\ UNCHANGED <<counters, counterTags>>
     ELSE /\ counters' = counters \ {Row(r.id)}
          /\ counterTags' = {ct \in counterTags : ct[1] # r.id}
          /\ Finish(p, r, "ok", NoRet)
  /\ UNCHANGED <<nextId, now, started>>

(* ---------------------------------------------------------- findOneOwned *)
findOneOwned(p, in) ==
  \E u \in in.users, id \in 1..MaxCounters :
    LET r == NewCall("findOneOwned", u, id, NoDto, Undef)
    IN
    /\ Accepts(p)
    /\ IF findOneOrFail(id, u) # "ok"
       THEN Finish(p, r, findOneOrFail(id, u), NoRet)
       ELSE Finish(p, r, "ok", foundCounter(id))
    /\ UNCHANGED <<counters, counterTags, nextId, now>>

(* --------------------------------------------------- findOneBySlugPublic *)
\* findOneBySlugPublic(slug), the slug carried in dto.slug: the lookup
\* settles the response; the increment is issued and left in flight
slugNotFound(slug) == [text |-> "Counter with slug \"${slug}\" not found", slug |-> slug]
slugNotFoundPrivate(slug) ==
  [text |-> "Counter with slug \"${slug}\" not found (private).", slug |-> slug]

findOneBySlugPublic(p, in) ==
  \E slug \in in.slugs :
    LET r == NewCall("findOneBySlugPublic", "none", 0, [NoDto EXCEPT !.slug = slug], Undef)
        counter == RowBySlug(slug)
        ret == mapCounterToResponseType(includeCounterDetails(counter, TagsOf(counter.id)))
    IN
    /\ Accepts(p)
    /\ IF counter = NoRow THEN Throw(p, r, "NotFound", slugNotFound(slug))
       ELSE IF Truthy(counter.isPrivate)
            THEN Throw(p, r, "NotFound", slugNotFoundPrivate(slug))
       ELSE IF counter.archivedAt # Null THEN Finish(p, r, "ok", ret)
       ELSE /\ req' = [req EXCEPT ![p] = [r EXCEPT !.pc = "increment", !.id = counter.id,
                                                   !.snap = counter]]
            /\ response' = Answer(r, "ok", ret)
    /\ UNCHANGED <<counters, counterTags, nextId, now>>

\* mutant: the increment computed from the counter that was read
incrementViewCountFromRead(p) ==
  LET r == req[p]
      row == [Row(r.id) EXCEPT !.viewCount = r.snap.viewCount + 1, !.updatedAt = now]
  IN
  /\ r.pc = "increment" /\ r.op = "findOneBySlugPublic"
  /\ IF Row(r.id) = NoRow
     THEN /\ UNCHANGED counters
          /\ Goto(p, [r EXCEPT !.pc = "incrementFailed"])
     ELSE /\ counters' = (counters \ {Row(r.id)}) \cup {row}
          /\ Goto(p, Idle)
  /\ UNCHANGED <<counterTags, nextId, now, started>>

\* update({where: {id}, data: {viewCount: {increment: 1}}}): one atomic add
\* in the store, on whatever row has the id by then; without such a row the
\* promise rejects (P2025)
incrementViewCount(p) ==
  LET r == req[p]
      row == [Row(r.id) EXCEPT !.viewCount = @ + 1, !.updatedAt = now]
  IN
  /\ r.pc = "increment" /\ r.op = "findOneBySlugPublic"
  /\ IF Row(r.id) = NoRow
     THEN /\ UNCHANGED counters
          /\ Goto(p, [r EXCEPT !.pc = "incrementFailed"])
     ELSE /\ counters' = (counters \ {Row(r.id)}) \cup {row}
          /\ Goto(p, Idle)
  /\ UNCHANGED <<counterTags, nextId, now, started>>

\* mutant: the rejection reaches a caller as an error
logIncrementFailureAndThrow(p) ==
  /\ req[p].pc = "incrementFailed" /\ req[p].op = "findOneBySlugPublic"
  /\ Finish(p, req[p], "InternalFailure", NoRet)
  /\ UNCHANGED <<counters, counterTags, nextId, now, started>>

\* .catch(err => console.error(...)): the rejection is logged and dropped
logIncrementFailure(p) ==
  /\ req[p].pc = "incrementFailed" /\ req[p].op = "findOneBySlugPublic"
  /\ Goto(p, Idle)
  /\ UNCHANGED <<counters, counterTags, nextId, now, started>>

(* ------------------------------------------------------------ findPublic *)
Max(a, b) == IF a >= b THEN a ELSE b
Min(a, b) == IF a <= b THEN a ELSE b

\* CountersController.findPublic: the options it hands to the service
findPublicOptions(query) ==
  [page |-> Max(1, query.page),
   limit |-> Max(1, Min(50, query.limit)),
   sortBy |-> query.sortBy,
   sortOrder |-> IF query.sortOrder = "asc" THEN "asc" ELSE "desc",
   search |-> TrimRight(TrimLeft(query.search)),
   tagSlugs |-> query.tags]

Lower(text) == [i \in DOMAIN text |-> toLowerCase(text[i])]

\* {contains: search, mode: 'insensitive'}; an absent (null) text matches nothing
ContainsInsensitive(text, search) ==
  \E i \in 1..(Len(text) - Len(search) + 1) :
    Lower(SubSeq(text, i, i + Len(search) - 1)) = Lower(search)

\* mutant: tags: {every: ...} in place of {some: ...}, on the tags asked for
TagsMatchEvery(id, tagSlugs) ==
  \A g \in tagSlugs : \E t \in TagsOf(id) : TagSlug(t) = g

\* tags: {some: {tag: {slug: {in: tagSlugs}}}}
TagsMatch(id, tagSlugs) == \E t \in TagsOf(id) : TagSlug(t) \in tagSlugs

\* the where clause
Matches(c, options) ==
  /\ c.isPrivate = "false"
  /\ c.archivedAt = Null
  /\ (options.search # <<>>) =>
        \/ ContainsInsensitive(c.name, options.search)
        \/ ContainsInsensitive(c.description, options.search)
  /\ (options.tagSlugs # {}) => TagsMatch(c.id, options.tagSlugs)

Matching(options) == {c \in counters : Matches(c, options)}

\* the place of a character in the collation: space, digits, letters
\* (either case)
CharRank(ch) ==
  IF IsDigit(ch) THEN CHOOSE i \in DOMAIN DigitSeq : DigitSeq[i] = ch
  ELSE IF IsWordChar(ch)
       THEN 10 + (CHOOSE i \in DOMAIN LowerSeq : LowerSeq[i] = toLowerCase(ch))
       ELSE 0

\* a <= b for texts
RECURSIVE TextLeq(_, _)
TextLeq(a, b) ==
  IF a = <<>> THEN TRUE
  ELSE IF b = <<>> THEN FALSE
  ELSE IF CharRank(Head(a)) # CharRank(Head(b)) THEN CharRank(Head(a)) < CharRank(Head(b))
  ELSE TextLeq(Tail(a), Tail(b))

\* the one column of orderBy
OrderColumn(sortBy) ==
  IF sortBy = "popularity" THEN "viewCount"
  ELSE IF sortBy = "startDate" THEN "startDate"
  ELSE IF sortBy = "name" THEN "name"
  ELSE "createdAt"

\* c1 is not after c2 under ORDER BY column ASC
ColumnLeq(c1, c2, column) ==
  IF column = "name" THEN TextLeq(c1.name, c2.name)
  ELSE IF column = "viewCount" THEN c1.viewCount <= c2.viewCount
  ELSE IF column = "startDate" THEN c1.startDate <= c2.startDate
  ELSE c1.createdAt <= c2.createdAt

\* q obeys orderBy: {column: sortOrder}
InOrder(q, column, sortOrder) ==
  \A i, j \in DOMAIN q :
    i < j => IF sortOrder = "asc" THEN ColumnLeq(q[i], q[j], column)
             ELSE ColumnLeq(q[j], q[i], column)

\* the orders in which the store may return rows under orderBy: rows equal
\* on the column come in any order
OrderedRows(rows, options) ==
  {q \in [1..Cardinality(rows) -> rows] :
     /\ Range(q) = rows
     /\ InOrder(q, OrderColumn(options.sortBy), options.sortOrder)}

\* skip: (page - 1) * limit, take: limit
SkipTake(q, options) ==
  SubSeq(q, (options.page - 1) * options.limit + 1,
         Min(Len(q), (options.page - 1) * options.limit + options.limit))

\* Math.ceil(totalItems / limit)
totalPages(totalItems, limit) == (totalItems + limit - 1) \div limit

\* items.map(this.mapCounterToResponseType)
mappedItems(items) ==
  [i \in DOMAIN items |->
     mapCounterToResponseType(includeCounterDetails(items[i], TagsOf(items[i].id)))]

\* findPublic(options) up to the end of the first statement of the
\* transaction, counter.count({where}); listings are not counted among the
\* requests of a behaviour, and one is in flight at a time
findPublicCount(p, in) ==
  \E query \in in.queries :
    LET r == [NewCall("findPublic", "none", 0, NoDto, Undef) EXCEPT !.query = query]
    IN
    /\ req[p].pc = "idle"
    /\ \A q \in Procs : req[q].op # "findPublic"
    /\ Goto(p, [r EXCEPT !.pc = "items",
                         !.total = Cardinality(Matching(findPublicOptions(query)))])
    /\ UNCHANGED <<counters, counterTags, nextId, now, started>>

\* the second statement, counter.findMany({where, orderBy, skip, take}), on
\* the rows committed by then (the transaction runs at the isolation level
\* of the database, read committed), and the return
findPublicItems(p) ==
  LET r == req[p]
      options == findPublicOptions(r.query)
  IN
  /\ r.pc = "items" /\ r.op = "findPublic"
  /\ \E q \in OrderedRows(Matching(options), options) :
       /\ req' = [req EXCEPT ![p] = Idle]
       /\ response' = [Answer(r, "ok", NoRet) EXCEPT
                         !.page = [items |-> mappedItems(SkipTake(q, options)),
                                   totalItems |-> r.total,
                                   totalPages |-> totalPages(r.total, options.limit),
                                   currentPage |-> options.page]]
  /\ UNCHANGED <<counters, counterTags, nextId, now, started>>

(* -------------------------------------------------------------- findMine *)
\* mutant: the where clause left out
MineRowsOfAll(userId) == counters

\* where: {userId: userId}
MineRows(userId) == {c \in counters : c.userId = userId}

\* orderBy: {createdAt: 'desc'}
MineOrder == [sortBy |-> "createdAt", sortOrder |-> "desc"]

\* findMine(userId): one findMany, mapped and split by archivedAt; a read
\* answered at once, not counted among the requests of a behaviour
findMine(p, in) ==
  \E u \in in.users :
    LET r == NewCall("findMine", u, 0, NoDto, Undef)
    IN
    /\ req[p].pc = "idle"
    /\ \E q \in OrderedRows(MineRows(u), MineOrder) :
         LET mappedCounters == mappedItems(q)
         IN /\ response' = [Answer(r, "ok", NoRet) EXCEPT
                   !.mine = [active |-> SelectSeq(mappedCounters,
                                          LAMBDA c : c.row.archivedAt = Null),
                             archived |-> SelectSeq(mappedCounters,
                                          LAMBDA c : c.row.archivedAt # Null)]]
    /\ UNCHANGED <<counters, counterTags, nextId, now, req, started>>

(* ------------------------------------------------------------ the specs *)
\* `in` names what the callers send: users, createDtos, updateDtos,
\* archiveDates, slugs (the slugs looked up through /counters/c/:slug)
MyRun == <<"M","y"," ","R","u","n">>
MyRunBang == <<"m","y","-","r","u","n","!">>
my_run == <<"m","y","-","r","u","n">>
my_run_2 == <<"m","y","-","r","u","n","-","2">>

\* Spec: the life of a counter.  One name, public counters with and without
\* a tag, every start date and every archive date of the clock, updates of
\* the start date and of the tags, every owner-gated call by two users.
LifeInputs ==
  [users |-> Users,
   createDtos |-> {[NoDto EXCEPT !.name = MyRun, !.startDate = d, !.tagIds = t] :
                     d \in Dates, t \in {<<>>, <<{1}>>}},
   updateDtos |-> {[NoDto EXCEPT !.startDate = d] : d \in Dates}
                  \cup {[NoDto EXCEPT !.tagIds = <<{}>>]},
   archiveDates |-> {Undef, InvalidDate} \cup Dates,
   slugs |-> {my_run}]

Next ==
  \/ Tick
  \/ \E p \in Procs :
       \/ createCall(p, LifeInputs)
       \/ generateUniqueSlug(p)
       \/ createWrite(p)
       \/ updateCall(p, LifeInputs)
       \/ updateWrite(p)
       \/ archiveCall(p, LifeInputs)
       \/ archiveCheck(p)
       \/ archiveWrite(p)
       \/ unarchiveCall(p, LifeInputs)
       \/ unarchiveWrite(p)
       \/ removeCall(p, LifeInputs)
       \/ removeWrite(p)
       \/ findOneOwned(p, LifeInputs)
       \/ findOneBySlugPublic(p, LifeInputs)
       \/ incrementViewCount(p)
       \/ logIncrementFailure(p)

Spec == Init /\ [][Next]_vars

\* SpecSlug: the slugs.  Two names with the one base slug my-run, supplied
\* slugs my-run and my-run-2, both visibilities, renames and visibility
\* flips, and archive, unarchive and remove beside them; the clock stands.
SlugInputs ==
  [users |-> Users,
   createDtos |-> {[NoDto EXCEPT !.name = n, !.startDate = 0, !.isPrivate = v, !.slug = s] :
                     n \in {MyRun, MyRunBang}, v \in {"true", "false"},
                     s \in {<<>>, my_run}},
   updateDtos |-> {[NoDto EXCEPT !.name = n] : n \in {MyRun, MyRunBang}}
                  \cup {[NoDto EXCEPT !.slug = s] : s \in {my_run, my_run_2}}
                  \cup {[NoDto EXCEPT !.isPrivate = v] : v \in {"true", "false"}},
   archiveDates |-> {Undef},
   slugs |-> {}]

NextSlug ==
  \E p \in Procs :
    \/ createCall(p, SlugInputs)
    \/ generateUniqueSlug(p)
    \/ createWrite(p)
    \/ updateCall(p, SlugInputs)
    \/ updatePrecheck(p)
    \/ updateWrite(p)
    \/ archiveCall(p, SlugInputs)
    \/ archiveCheck(p)
    \/ archiveWrite(p)
    \/ unarchiveCall(p, SlugInputs)
    \/ unarchiveWrite(p)
    \/ removeCall(p, SlugInputs)
    \/ removeWrite(p)

SpecSlug == Init /\ [][NextSlug]_vars

\* SpecChallenge: the challenge fields.  One user and one name; isChallenge
\* absent, null, true and false with challengeDurationDays absent, null, 0,
\* 1 and 2, on create and on update.
ChallengeFlags == {"undefined", "null", "true", "false"}
ChallengeDays == {Undef, Null, 0, 1, 2}
ChallengeInputs ==
  [users |-> {"u1"},
   createDtos |-> {[NoDto EXCEPT !.name = MyRun, !.startDate = 0, !.isChallenge = c,
                                 !.challengeDurationDays = d] :
                     c \in ChallengeFlags, d \in ChallengeDays},
   updateDtos |-> {[NoDto EXCEPT !.isChallenge = c, !.challengeDurationDays = d] :
                     c \in ChallengeFlags, d \in ChallengeDays},
   archiveDates |-> {},
   slugs |-> {}]

NextChallenge ==
  \E p \in Procs :
    \/ createCall(p, ChallengeInputs)
    \/ generateUniqueSlug(p)
    \/ createWrite(p)
    \/ updateCall(p, ChallengeInputs)
    \/ updateWrite(p)

SpecChallenge == Init /\ [][NextChallenge]_vars

\* SpecView: the public view.  One owner and one name, private and public
\* counters, visibility flips, archive, unarchive and remove beside lookups
\* of a slug that may belong to a public counter, a private one, or none.
ViewInputs ==
  [users |-> {"u1"},
   createDtos |-> {[NoDto EXCEPT !.name = MyRun, !.startDate = 0, !.isPrivate = v] :
                     v \in {"true", "false"}},
   updateDtos |-> {[NoDto EXCEPT !.isPrivate = v] : v \in {"true", "false"}},
   archiveDates |-> {Undef},
   slugs |-> {my_run}]

NextView ==
  \E p \in Procs :
    \/ createCall(p, ViewInputs)
    \/ generateUniqueSlug(p)
    \/ createWrite(p)
    \/ updateCall(p, ViewInputs)
    \/ updateWrite(p)
    \/ archiveCall(p, ViewInputs)
    \/ archiveCheck(p)
    \/ archiveWrite(p)
    \/ unarchiveCall(p, ViewInputs)
    \/ unarchiveWrite(p)
    \/ removeCall(p, ViewInputs)
    \/ removeWrite(p)
    \/ findOneBySlugPublic(p, ViewInputs)
    \/ incrementViewCount(p)
    \/ logIncrementFailure(p)

SpecView == Init /\ [][NextView]_vars

\* SpecPublic: the public listing.  Public counters that differ in name,
\* description, start date, tag, creation time and views, a private and an
\* archived one beside them, and listings that filter (search text, tag
\* slugs), sort (every key, both directions) and page (pages 0..3 of limit
\* 1, limits 0, 2 and 51), count and items interleaved with the other
\* requests.
Walk == <<"W","a","l","k">>
FunRun == <<"F","u","n"," ","R","U","N">>
SearchRun == <<" ","r","u","n"," ">>
PublicBase == [NoDto EXCEPT !.name = MyRun, !.startDate = 0]
PublicInputs ==
  [users |-> {"u1"},
   createDtos |-> {PublicBase,
                   [PublicBase EXCEPT !.name = Walk],
                   [PublicBase EXCEPT !.name = Walk, !.description = FunRun,
                                      !.startDate = 1],
                   [PublicBase EXCEPT !.isPrivate = "true"],
                   [PublicBase EXCEPT !.tagIds = <<{1}>>]},
   updateDtos |-> {},
   archiveDates |-> {Undef},
   slugs |-> {my_run},
   queries |-> {[NoQuery EXCEPT !.search = SearchRun],
                [NoQuery EXCEPT !.tags = {"health", "fitness"}],
                [NoQuery EXCEPT !.search = SearchRun, !.tags = {"fitness"}]}
               \cup {[NoQuery EXCEPT !.sortBy = k, !.sortOrder = o] :
                  k \in {"popularity", "startDate", "name", "createdAt"},
                  o \in {"asc", "desc"}}
               \cup {[NoQuery EXCEPT !.page = n, !.limit = 1] : n \in 0..3}
               \cup {[NoQuery EXCEPT !.page = n, !.limit = l] :
                  n \in {1}, l \in {0, 2, 51}}]

NextPublic ==
  \/ Tick
  \/ \E p \in Procs :
       \/ createCall(p, PublicInputs)
       \/ generateUniqueSlug(p)
       \/ createWrite(p)
       \/ archiveCall(p, PublicInputs)
       \/ archiveCheck(p)
       \/ archiveWrite(p)
       \/ findOneBySlugPublic(p, PublicInputs)
       \/ incrementViewCount(p)
       \/ findPublicCount(p, PublicInputs)
       \/ findPublicItems(p)

SpecPublic == Init /\ [][NextPublic]_vars

\* SpecTags: the tag associations.  Counters created with the tag 1, and
\* updates by their owner with tagIds empty, {2} and {1, 2}, and with tagIds
\* absent (a new start date), on either counter.
TagInputs ==
  [users |-> {"u1"},
   createDtos |-> {[NoDto EXCEPT !.name = MyRun, !.startDate = 0, !.tagIds = <<{1}>>]},
   updateDtos |-> {[NoDto EXCEPT !.tagIds = <<g>>] : g \in {{}, {2}, {1, 2}}}
                  \cup {[NoDto EXCEPT !.startDate = 1]},
   archiveDates |-> {},
   slugs |-> {}]

NextTags ==
  \E p \in Procs :
    \/ createCall(p, TagInputs)
    \/ generateUniqueSlug(p)
    \/ createWrite(p)
    \/ updateCall(p, TagInputs)
    \/ updateWrite(p)

SpecTags == Init /\ [][NextTags]_vars

\* SpecGen: the slug generator against a store that already holds counters
\* named "My Run", created before by another user: the first k of the ten
\* slugs my-run, my-run-2, ..., my-run-10 (k = 0..10), or all of them but
\* one.  Then creates with that name and renames, by one user.
SeedSlug(k) ==
  IF k = 0 THEN baseSlugOf(MyRun)
  ELSE IF k < maxAttempts THEN baseSlugOf(MyRun) \o <<"-">> \o toString(k + 1)
  ELSE baseSlugOf(MyRun) \o <<"-">> \o TimeSuffix(0)

SeedRow(k) ==
  createData([Idle EXCEPT !.user = "u2",
                          !.dto = [NoDto EXCEPT !.name = MyRun, !.startDate = 0],
                          !.slug = SeedSlug(k)],
             MaxCounters + 1 + k)

SeedSets ==
  {0..(k - 1) : k \in 0..maxAttempts}
    \cup {(0..(maxAttempts - 1)) \ {j} : j \in 0..(maxAttempts - 1)}

InitGen ==
  /\ now = 0
  /\ nextId = 0
  /\ \E seeds \in SeedSets : counters = {SeedRow(k) : k \in seeds}
  /\ counterTags = {}
  /\ req = [p \in Procs |-> Idle]
  /\ started = 0
  /\ response = NoResponse

GenInputs ==
  [users |-> {"u1"},
   createDtos |-> {[NoDto EXCEPT !.name = MyRun, !.startDate = 0]},
   updateDtos |-> {[NoDto EXCEPT !.name = n] : n \in {MyRun, MyRunBang}},
   archiveDates |-> {},
   slugs |-> {}]

NextGen ==
  \E p \in Procs :
    \/ createCall(p, GenInputs)
    \/ generateUniqueSlug(p)
    \/ createWrite(p)
    \/ updateCall(p, GenInputs)
    \/ updateWrite(p)

SpecGen == InitGen /\ [][NextGen]_vars

\* SpecMine: the owner's lists.  Two users create counters at either tick of
\* the clock and archive and unarchive them; each asks for their lists.
MineInputs ==
  [users |-> Users,
   createDtos |-> {[NoDto EXCEPT !.name = MyRun, !.startDate = 0, !.tagIds = <<{1}>>]},
   updateDtos |-> {},
   archiveDates |-> {Undef},
   slugs |-> {}]

NextMine ==
  \/ Tick
  \/ \E p \in Procs :
       \/ createCall(p, MineInputs)
       \/ generateUniqueSlug(p)
       \/ createWrite(p)
       \/ archiveCall(p, MineInputs)
       \/ archiveCheck(p)
       \/ archiveWrite(p)
       \/ unarchiveCall(p, MineInputs)
       \/ unarchiveWrite(p)
       \/ findMine(p, MineInputs)

SpecMine == Init /\ [][NextMine]_vars

\* SpecShape: the shape of slugs.  Names the DTO accepts: "My Run", the two
\* letters "Hi" and the one character "!"; creates with and without the
\* supplied slug my-run, private and public, and renames.
Hi == <<"H", "i">>
Bang == <<"!">>
ShapeNames == {MyRun, Hi, Bang}
ShapeInputs ==
  [users |-> {"u1"},
   createDtos |-> {[NoDto EXCEPT !.name = n, !.startDate = 0, !.slug = g, !.isPrivate = v] :
                     n \in ShapeNames, g \in {<<>>, my_run}, v \in {"true", "false"}},
   updateDtos |-> {[NoDto EXCEPT !.name = n] : n \in ShapeNames},
   archiveDates |-> {},
   slugs |-> {}]

NextShape ==
  \E p \in Procs :
    \/ createCall(p, ShapeInputs)
    \/ generateUniqueSlug(p)
    \/ createWrite(p)
    \/ updateCall(p, ShapeInputs)
    \/ updateWrite(p)

SpecShape == Init /\ [][NextShape]_vars

\* SpecAchieved: the achievement of a challenge.  The service only ever
\* resets challengeAchievedAt; the column is filled in from outside it.  The
\* store holds one challenge counter of one day, started at 0, with
\* challengeAchievedAt null or 0.  Its owner updates the start date, the
\* duration, the challenge flag and the description, two requests in
\* flight, and creates a second challenge counter.
AchievedRow(achievedAt) ==
  [createData([Idle EXCEPT !.user = "u1",
                           !.dto = [NoDto EXCEPT !.name = MyRun, !.startDate = 0,
                                                 !.isChallenge = "true",
                                                 !.challengeDurationDays = 1],
                           !.slug = my_run],
              1)
   EXCEPT !.challengeAchievedAt = achievedAt]

InitAchieved ==
  /\ now = 0
  /\ nextId = 1
  /\ \E achievedAt \in {Null, 0} : counters = {AchievedRow(achievedAt)}
  /\ counterTags = {}
  /\ req = [p \in Procs |-> Idle]
  /\ started = 0
  /\ response = NoResponse

AchievedInputs ==
  [users |-> {"u1"},
   createDtos |-> {[NoDto EXCEPT !.name = MyRun, !.startDate = 0, !.isChallenge = "true",
                                 !.challengeDurationDays = 1]},
   updateDtos |-> {[NoDto EXCEPT !.startDate = d] : d \in Dates}
                  \cup {[NoDto EXCEPT !.challengeDurationDays = n] : n \in {1, 2}}
                  \cup {[NoDto EXCEPT !.isChallenge = c] : c \in {"true", "false"}}
                  \cup {[NoDto EXCEPT !.description = Walk]},
   archiveDates |-> {},
   slugs |-> {}]

NextAchieved ==
  \/ Tick
  \/ \E p \in Procs :
       \/ createCall(p, AchievedInputs)
       \/ generateUniqueSlug(p)
       \/ createWrite(p)
       \/ updateCall(p, AchievedInputs)
       \/ updateWrite(p)

SpecAchieved == InitAchieved /\ [][NextAchieved]_vars

\* SpecFallback: the generator out of candidates.  The store holds all ten
\* of my-run, my-run-2, ..., my-run-10, and in one of the two initial states
\* also my-run-0000, the fallback slug of time 0.  One user creates counters
\* named "My Run" and "Walk" and renames to "My Run", at either tick.
InitFallback ==
  /\ now = 0
  /\ nextId = 0
  /\ \E last \in {maxAttempts - 1, maxAttempts} : counters = {SeedRow(k) : k \in 0..last}
  /\ counterTags = {}
  /\ req = [p \in Procs |-> Idle]
  /\ started = 0
  /\ response = NoResponse

FallbackInputs ==
  [users |-> {"u1"},
   createDtos |-> {[NoDto EXCEPT !.name = n, !.startDate = 0] : n \in {MyRun, Walk}},
   updateDtos |-> {[NoDto EXCEPT !.name = MyRun]},
   archiveDates |-> {},
   slugs |-> {}]

NextFallback ==
  \/ Tick
  \/ \E p \in Procs :
       \/ createCall(p, FallbackInputs)
       \/ generateUniqueSlug(p)
       \/ createWrite(p)
       \/ updateCall(p, FallbackInputs)
       \/ updateWrite(p)

SpecFallback == InitFallback /\ [][NextFallback]_vars

\* SpecRemove: removal and the tag associations.  One user; counters
\* created with the tag 1 or with the tag 3, which does not exist; updates
\* with tagIds [2] and [2, 3]; archive, unarchive, remove and views of the
\* slug beside them, two requests in flight.  The store is empty, or holds
\* a counter with the tag 1 that was created and archived at time 0.
ArchivedRow ==
  [createData([Idle EXCEPT !.user = "u1",
                           !.dto = [NoDto EXCEPT !.name = MyRun, !.startDate = 0,
                                                 !.tagIds = <<{1}>>],
                           !.slug = my_run],
              1)
   EXCEPT !.archivedAt = 0]

InitRemove ==
  /\ now = 0
  /\ \/ counters = {} /\ counterTags = {} /\ nextId = 0
     \/ counters = {ArchivedRow} /\ counterTags = {<<1, 1>>} /\ nextId = 1
  /\ req = [p \in Procs |-> Idle]
  /\ started = 0
  /\ response = NoResponse

RemoveInputs ==
  [users |-> {"u1"},
   createDtos |-> {[NoDto EXCEPT !.name = MyRun, !.startDate = 0, !.tagIds = <<g>>] :
                     g \in {{1}, {3}}},
   updateDtos |-> {[NoDto EXCEPT !.tagIds = <<g>>] : g \in {{2}, {2, 3}}},
   archiveDates |-> {Undef},
   slugs |-> {my_run}]

NextRemove ==
  \E p \in Procs :
    \/ createCall(p, RemoveInputs)
    \/ generateUniqueSlug(p)
    \/ createWrite(p)
    \/ updateCall(p, RemoveInputs)
    \/ updateWrite(p)
    \/ archiveCall(p, RemoveInputs)
    \/ archiveCheck(p)
    \/ archiveWrite(p)
    \/ unarchiveCall(p, RemoveInputs)
    \/ unarchiveWrite(p)
    \/ removeCall(p, RemoveInputs)
    \/ removeWrite(p)
    \/ findOneBySlugPublic(p, RemoveInputs)
    \/ incrementViewCount(p)
    \/ logIncrementFailure(p)

SpecRemove == InitRemove /\ [][NextRemove]_vars

(* ================================================================ claims *)
\* p's request ends in this step
Ends(p) == req[p].pc # "idle" /\ req'[p].pc = "idle"
\* a call is made in this step
CallStep == started' = started + 1
\* the call made in this step (op, user, id, dto, arg), whether it goes on
\* to a further await or was answered at once
NewCallOf ==
  IF \E p \in Procs : req'[p] # req[p]
  THEN req'[CHOOSE p \in Procs : req'[p] # req[p]]
  ELSE response'
\* the call made in this step was answered at once
AnsweredAtOnce == req' = req
\* the counter as the API is to present it: the row and its tags
CurrentRecord(id) == [row |-> Row(id), tags |-> {TagObject(t) : t \in TagsOf(id)}]
\* the row with the id among rows (of counters or of counters')
RowIn(rows, id) == CHOOSE c \in rows : c.id = id
RowsWithSlug(rows, slug) == {c \in rows : c.slug = slug}

\* C1: in every reachable state, no two counters, private or public, have
\* the same slug (checked under SpecSlug: create, update, archive, unarchive
\* and remove by two users, in every interleaving).
C1_SlugUnique ==
  \A c1, c2 \in counters : c1.id # c2.id => c1.slug # c2.slug

\* C1 witness: two counters of different users whose names have the same
\* base slug, one private and one public, stand side by side
C1_Witness ==
  \E c1, c2 \in counters :
    /\ c1.userId # c2.userId
    /\ baseSlugOf(c1.name) = baseSlugOf(c2.name)
    /\ c1.isPrivate = "true" /\ c2.isPrivate = "false"
    /\ c1.slug = my_run /\ c2.slug = my_run_2

\* C2: a create that reaches its write with a slug some row already holds
\* (its pre-check passed before the other request wrote) fails with Conflict
\* and persists nothing; a create that reaches its write with a free slug
\* persists exactly one counter with it.  So of two creates that passed
\* their pre-checks with the same slug exactly one row results.
C2_RaceLoserConflict ==
  [][\A p \in Procs :
       (req[p].op = "create" /\ req[p].pc = "write" /\ Ends(p)) =>
         IF RowsWithSlug(counters, req[p].slug) # {}
         THEN /\ response'.result = "Conflict"
              /\ UNCHANGED <<counters, counterTags, nextId>>
         ELSE /\ response'.result = "ok"
              /\ Cardinality(RowsWithSlug(counters', req[p].slug)) = 1
              /\ Cardinality(counters') = Cardinality(counters) + 1]_vars

\* C2 witness: two creates without a supplied slug (whose only Conflict is
\* the one of the write) both found my-run free; one wrote it, the other has
\* just been refused, and the one row is all there is
C2_Witness ==
  /\ response.op = "create" /\ response.result = "Conflict"
  /\ response.dto.slug = <<>>
  /\ Cardinality(RowsWithSlug(counters, my_run)) = 1
  /\ Cardinality(counters) = 1

OwnerOps == {"update", "archive", "unarchive", "remove", "findOneOwned"}

\* C3: update, archive, unarchive, remove and findOneOwned called with
\* (id, ownerId) fail with NotFound when no counter has the id, and with
\* Forbidden when the counter exists and its owner is another user; either
\* way the call ends there and no counter and no tag association changes.
C3_NotFoundThenForbidden ==
  [][(CallStep /\ NewCallOf.op \in OwnerOps) =>
       LET c == NewCallOf
       IN /\ Row(c.id) = NoRow =>
               /\ AnsweredAtOnce /\ response'.result = "NotFound"
               /\ UNCHANGED <<counters, counterTags>>
          /\ (Row(c.id) # NoRow /\ Row(c.id).userId # c.user) =>
               /\ AnsweredAtOnce /\ response'.result = "Forbidden"
               /\ UNCHANGED <<counters, counterTags>>]_vars

\* C3 witness: another user's update that would clear the tags of a tagged
\* counter has just been refused with Forbidden, and the tag is still there
C3_Witness ==
  /\ response.op = "update" /\ response.result = "Forbidden"
  /\ response.dto.tagIds = <<{}>>
  /\ Row(response.id) # NoRow /\ Row(response.id).userId # response.user
  /\ TagsOf(response.id) = {1}

\* C4: a counter's userId is the id of the user whose create wrote it, and
\* no step (update, archive, unarchive, the view increment) changes it while
\* the counter exists; ids are never given twice.
C4_OwnerFixed ==
  [][/\ \A c \in counters : \A d \in counters' : d.id = c.id => d.userId = c.userId
     /\ \A d \in counters' :
          (~\E c \in counters : c.id = d.id) =>
             /\ d.id = nextId + 1 /\ nextId' = nextId + 1
             /\ \E p \in Procs : /\ req[p].op = "create" /\ Ends(p)
                                 /\ d.userId = req[p].user]_vars

\* C4 witness: a counter of u2 that has been viewed and then archived by u2
C4_Witness ==
  \E c \in counters : c.userId = "u2" /\ c.viewCount = 1 /\ c.archivedAt # Null

\* C5 (as claimed): every archived counter has archivedAt >= its current
\* startDate, and archivedAt not after the write that set it (so not after
\* updatedAt, which that write stamped).
C5_ArchivedAtWithinRange ==
  \A c \in counters :
    c.archivedAt # Null => (c.archivedAt >= c.startDate /\ c.archivedAt <= c.updatedAt)

\* the half of C5 that the code keeps: archivedAt is never after the write
ArchivedAtNotAfterWrite ==
  \A c \in counters : c.archivedAt # Null => (c.archivedAt <= c.updatedAt /\ c.updatedAt <= now)

\* what C6 says of archive past findOneOrFail, with `stamp` the updatedAt it
\* allows the written row: the date D is the supplied one when it is a valid
\* date and the clock otherwise; D before the start date read or after the
\* clock ends the call with ValidationFailure and changes nothing; otherwise
\* the write sets archivedAt to D and leaves every other field and the tags
ArchiveDoes(p, stamp(_)) ==
  LET r == req[p]
      D == IF r.arg \in Dates THEN r.arg ELSE now
  IN
  /\ (r.op = "archive" /\ r.pc = "check" /\ req'[p] # r) =>
        IF D < r.snap.startDate \/ D > now
        THEN /\ Ends(p) /\ response'.result = "ValidationFailure"
             /\ UNCHANGED <<counters, counterTags>>
        ELSE /\ req'[p].pc = "write" /\ req'[p].date = D
             /\ UNCHANGED <<counters, counterTags>>
  /\ (r.op = "archive" /\ r.pc = "write" /\ Ends(p) /\ Row(r.id) # NoRow) =>
        /\ counters' = (counters \ {Row(r.id)})
                         \cup {[Row(r.id) EXCEPT !.archivedAt = r.date,
                                                 !.updatedAt = stamp(@)]}
        /\ UNCHANGED counterTags
        /\ response'.result = "ok"

\* C6 (as claimed): ... archivedAt becomes exactly D and no other field of
\* the counter changes.
C6_ArchiveChangesOnlyArchivedAt ==
  [][\A p \in Procs : ArchiveDoes(p, LAMBDA old : old)]_vars

\* C6 (amended): ... archivedAt becomes exactly D and no other field of the
\* counter changes but updatedAt, which the store sets to the time of the
\* write.
C6_ArchiveSetsArchivedAt ==
  [][\A p \in Procs : ArchiveDoes(p, LAMBDA old : now)]_vars

\* C6 witness: with the clock at 1, an archive with the valid past date 0 has
\* just set archivedAt to 0 on a counter created at 0
C6_Witness ==
  /\ response.op = "archive" /\ response.result = "ok" /\ response.arg = 0
  /\ now = 1
  /\ response.ret.row.archivedAt = 0 /\ response.ret.row.createdAt = 0
  /\ Row(response.id) = response.ret.row

\* the call made in this step is `op` by the owner of an existing counter
OwnerCalls(op) ==
  /\ CallStep /\ NewCallOf.op = op
  /\ Row(NewCallOf.id) # NoRow /\ Row(NewCallOf.id).userId = NewCallOf.user

\* C7 (as claimed): archive by the owner on a counter that is already
\* archived, whatever archiveDate is supplied, ends at once without error,
\* returns the current record, and changes no field and no tag association.
C7_ArchiveArchivedIsNoOp ==
  [][(OwnerCalls("archive") /\ Row(NewCallOf.id).archivedAt # Null) =>
        /\ AnsweredAtOnce /\ response'.result = "ok"
        /\ response'.ret = CurrentRecord(NewCallOf.id)
        /\ UNCHANGED <<counters, counterTags>>]_vars

\* the part of C7 about the store alone
ArchiveArchivedKeepsStore ==
  [][(OwnerCalls("archive") /\ Row(NewCallOf.id).archivedAt # Null) =>
        /\ AnsweredAtOnce /\ response'.result = "ok"
        /\ response'.ret.row = Row(NewCallOf.id)
        /\ UNCHANGED <<counters, counterTags>>]_vars

\* an archive with a date before the start date has just been answered for a
\* tagged counter that was already archived
ArchiveArchivedSeen ==
  /\ response.op = "archive" /\ response.result = "ok" /\ response.arg = 0
  /\ Row(response.id) # NoRow /\ Row(response.id).startDate = 1
  /\ Row(response.id).archivedAt = 1 /\ TagsOf(response.id) = {1}

\* C8 (as claimed): unarchive by the owner on an active counter changes
\* nothing and returns the record; on an archived counter its write sets
\* archivedAt to null and changes no other field (but the store's updatedAt
\* stamp) and no tag association.
C8_UnarchiveFrame ==
  [][/\ (OwnerCalls("unarchive") /\ Row(NewCallOf.id).archivedAt = Null) =>
          /\ AnsweredAtOnce /\ response'.result = "ok"
          /\ response'.ret = CurrentRecord(NewCallOf.id)
          /\ UNCHANGED <<counters, counterTags>>
     /\ (OwnerCalls("unarchive") /\ Row(NewCallOf.id).archivedAt # Null) =>
          /\ ~AnsweredAtOnce /\ NewCallOf.pc = "write"
          /\ UNCHANGED <<counters, counterTags>>
     /\ \A p \in Procs :
          (req[p].op = "unarchive" /\ req[p].pc = "write" /\ Ends(p)
             /\ Row(req[p].id) # NoRow) =>
            /\ counters' = (counters \ {Row(req[p].id)})
                             \cup {[Row(req[p].id) EXCEPT !.archivedAt = Null,
                                                          !.updatedAt = now]}
            /\ UNCHANGED counterTags
            /\ response'.result = "ok"
            /\ response'.ret = [row |-> RowIn(counters', req[p].id),
                                tags |-> {TagObject(t) : t \in TagsOf(req[p].id)}]]_vars

\* the part of C8 about the store alone
UnarchiveKeepsOtherFields ==
  [][/\ (OwnerCalls("unarchive") /\ Row(NewCallOf.id).archivedAt = Null) =>
          /\ AnsweredAtOnce /\ response'.result = "ok"
          /\ response'.ret.row = Row(NewCallOf.id)
          /\ UNCHANGED <<counters, counterTags>>
     /\ \A p \in Procs :
          (req[p].op = "unarchive" /\ req[p].pc = "write" /\ Ends(p)
             /\ Row(req[p].id) # NoRow) =>
            /\ counters' = (counters \ {Row(req[p].id)})
                             \cup {[Row(req[p].id) EXCEPT !.archivedAt = Null,
                                                          !.updatedAt = now]}
            /\ UNCHANGED counterTags]_vars

\* an unarchive has just been answered for a tagged counter that was active
UnarchiveActiveSeen ==
  /\ response.op = "unarchive" /\ response.result = "ok"
  /\ Row(response.id) # NoRow /\ Row(response.id).archivedAt = Null
  /\ Row(response.id).updatedAt = Row(response.id).createdAt
  /\ TagsOf(response.id) = {1}

\* a duration that is absent (undefined or null) or less than 1
DaysAbsentOrLow(days) == days = Undef \/ days = Null \/ days < 1

\* C9: create with isChallenge true and challengeDurationDays absent or
\* less than 1 fails with ValidationFailure and persists no counter and no
\* tag association; update by the owner applies the same check to the
\* effective values (the supplied value, else the stored one) and on failure
\* leaves the store as it was.
C9_ChallengeNeedsDays ==
  [][LET c == NewCallOf
         stored == Row(c.id)
         flag == IF c.dto.isChallenge # "undefined" THEN c.dto.isChallenge
                 ELSE stored.isChallenge
         days == IF c.dto.challengeDurationDays # Undef
                 THEN c.dto.challengeDurationDays
                 ELSE stored.challengeDurationDays
     IN /\ (/\ CallStep /\ c.op = "create" /\ c.dto.isChallenge = "true"
            /\ DaysAbsentOrLow(c.dto.challengeDurationDays)) =>
              /\ AnsweredAtOnce /\ response'.result = "ValidationFailure"
              /\ UNCHANGED <<counters, counterTags, nextId>>
        /\ (/\ OwnerCalls("update") /\ flag = "true" /\ DaysAbsentOrLow(days)) =>
              /\ AnsweredAtOnce /\ response'.result = "ValidationFailure"
              /\ UNCHANGED <<counters, counterTags, nextId>>]_vars

\* C9 witness: an update that only turns isChallenge on, for a stored counter
\* that is no challenge and has no duration, has just been refused
C9_Witness ==
  /\ response.op = "update" /\ response.result = "ValidationFailure"
  /\ response.dto.isChallenge = "true" /\ response.dto.challengeDurationDays = Undef
  /\ Row(response.id) # NoRow
  /\ Row(response.id).isChallenge = "false"
  /\ Row(response.id).challengeDurationDays = Null

\* C10: each counter with isChallenge true has challengeDurationDays >= 1,
\* and each counter with isChallenge false has challengeDurationDays and
\* challengeAchievedAt both null.
C10_ChallengeFieldsConsistent ==
  \A c \in counters :
    /\ c.isChallenge = "true" =>
         (c.challengeDurationDays \in Nat /\ c.challengeDurationDays >= 1)
    /\ c.isChallenge = "false" =>
         (c.challengeDurationDays = Null /\ c.challengeAchievedAt = Null)

\* C10 witness: an update with isChallenge false and a duration of 2 has just
\* been written and the counter has no duration, beside a challenge counter
C10_Witness ==
  /\ response.op = "update" /\ response.result = "ok"
  /\ response.dto.isChallenge = "false" /\ response.dto.challengeDurationDays = 2
  /\ Row(response.id).isChallenge = "false"
  /\ Row(response.id).challengeDurationDays = Null
  /\ \E c \in counters : c.isChallenge = "true" /\ c.challengeDurationDays = 1

\* C11 (as claimed): findOneBySlugPublic(S) where S belongs to a private
\* counter gives the caller the very outcome it gives where S belongs to no
\* counter (NotFound with the message of a missing slug), ends at once and
\* changes no state, so that the two stores cannot be told apart.
C11_PrivateLooksMissing ==
  [][(CallStep /\ NewCallOf.op = "findOneBySlugPublic") =>
       LET S == NewCallOf.dto.slug
       IN (RowBySlug(S) = NoRow \/ RowBySlug(S).isPrivate = "true") =>
            /\ AnsweredAtOnce
            /\ response'.result = "NotFound" /\ response'.ret = NoRet
            /\ response'.message = slugNotFound(S)
            /\ UNCHANGED <<counters, counterTags>>]_vars

\* the part of C11 that the code keeps: NotFound, and no state changed
PrivateViewChangesNothing ==
  [][(CallStep /\ NewCallOf.op = "findOneBySlugPublic") =>
       LET S == NewCallOf.dto.slug
       IN (RowBySlug(S) = NoRow \/ RowBySlug(S).isPrivate = "true") =>
            /\ AnsweredAtOnce
            /\ response'.result = "NotFound" /\ response'.ret = NoRet
            /\ UNCHANGED <<counters, counterTags>>]_vars

\* the lookup of a private counter's slug has just been answered
PrivateViewSeen ==
  /\ response.op = "findOneBySlugPublic" /\ response.result = "NotFound"
  /\ RowBySlug(response.dto.slug) # NoRow
  /\ RowBySlug(response.dto.slug).isPrivate = "true"

\* what C12 says of every step, with `when(c)` what it requires of the
\* counter c at the step that adds a view: a new counter starts at 0; a
\* viewCount changes only by +1, in the increment step of a
\* findOneBySlugPublic for that counter
ViewCountSteps(when(_)) ==
  /\ \A d \in counters' :
       (~\E c \in counters : c.id = d.id) => d.viewCount = 0
  /\ \A c \in counters : \A d \in counters' :
       (d.id = c.id /\ d.viewCount # c.viewCount) =>
          /\ d.viewCount = c.viewCount + 1
          /\ \E p \in Procs : /\ req[p].op = "findOneBySlugPublic"
                              /\ req[p].pc = "increment" /\ req[p].id = c.id
                              /\ req'[p].pc = "idle"
          /\ when(c)

\* C12 (as claimed): viewCount never decreases and changes only in +1 steps
\* made by findOneBySlugPublic, each applied to a counter that is non-private
\* and non-archived when the increment takes effect.
C12_ViewCountOnlyByLiveViews ==
  [][ViewCountSteps(LAMBDA c : c.isPrivate = "false" /\ c.archivedAt = Null)]_vars

\* the part of C12 that the code keeps: +1 steps by findOneBySlugPublic only
ViewCountOnlyByViews == [][ViewCountSteps(LAMBDA c : TRUE)]_vars

\* C13: a findOneBySlugPublic that issues the increment has returned the
\* normalized record it read, without error; when the increment then fails
\* because the counter is gone, the failure is logged and dropped: no
\* response carries an error and the store is left as it was.
C13_IncrementFailureSwallowed ==
  [][\A p \in Procs :
       /\ (req[p].pc = "idle" /\ req'[p].pc = "increment") =>
             /\ response'.op = "findOneBySlugPublic" /\ response'.result = "ok"
             /\ response'.ret = CurrentRecord(req'[p].id)
             /\ response'.ret.row = req'[p].snap
       /\ (req[p].pc = "increment" /\ Row(req[p].id) = NoRow /\ req'[p] # req[p]) =>
             /\ req'[p].pc = "incrementFailed"
             /\ response' = NoResponse
             /\ UNCHANGED <<counters, counterTags>>
       /\ (req[p].pc = "incrementFailed" /\ req'[p] # req[p]) =>
             /\ req'[p] = Idle
             /\ response' = NoResponse
             /\ UNCHANGED <<counters, counterTags>>]_vars

\* C13 witness: the increment of a view has failed on a counter that was
\* removed after the view read it
C13_Witness ==
  \E p \in Procs : /\ req[p].pc = "incrementFailed"
                   /\ req[p].snap.isPrivate = "false" /\ req[p].snap.archivedAt = Null
                   /\ Row(req[p].id) = NoRow

\* C14: every increment that succeeds raises the viewCount the store holds
\* at that moment by exactly one, whatever value the view had read, so N
\* concurrent views leave it exactly N higher.
C14_IncrementsNotLost ==
  [][\A p \in Procs :
       (req[p].pc = "increment" /\ Row(req[p].id) # NoRow /\ req'[p] # req[p]) =>
          /\ RowIn(counters', req[p].id).viewCount = Row(req[p].id).viewCount + 1
          /\ \A c \in counters :
               c.id # req[p].id => RowIn(counters', c.id).viewCount = c.viewCount]_vars

\* C14 witness: two views read the counter at viewCount 0; one increment has
\* landed and the other, whose read is stale by now, is still in flight
C14_Witness ==
  \E p \in Procs :
    /\ req[p].pc = "increment" /\ req[p].snap.viewCount = 0
    /\ Row(req[p].id) # NoRow /\ Row(req[p].id).viewCount = 1

\* the filter of the listing as the claims state it, for the query sent
PublicFilter(c, query) ==
  LET text == TrimRight(TrimLeft(query.search))
  IN /\ c.isPrivate = "false" /\ c.archivedAt = Null
     /\ (text # <<>>) => \/ ContainsInsensitive(c.name, text)
                         \/ ContainsInsensitive(c.description, text)
     /\ (query.tags # {}) =>
          \E ct \in counterTags : ct[1] = c.id /\ TagSlug(ct[2]) \in query.tags

PublicMatches(query) == {c \in counters : PublicFilter(c, query)}

\* p's findPublic returns in this step
Lists(p) == req[p].op = "findPublic" /\ Ends(p)

\* C15: the count of findPublic is the number of counters that are
\* non-private, non-archived, contain the search text (if given) in name or
\* description whatever the case, and carry at least one of the tag slugs
\* (if given); that count is the totalItems returned, every item returned is
\* such a counter, and a page that has room for all of them holds them all.
C15_FindPublicFilter ==
  [][\A p \in Procs :
       /\ (req[p].pc = "idle" /\ req'[p].op = "findPublic") =>
             req'[p].total = Cardinality(PublicMatches(req'[p].query))
       /\ Lists(p) =>
             LET items == response'.page.items
                 query == req[p].query
             IN /\ response'.page.totalItems = req[p].total
                /\ \A i \in DOMAIN items :
                     /\ items[i].row \in counters
                     /\ PublicFilter(items[i].row, query)
                /\ (query.page <= 1 /\ query.limit >= Cardinality(PublicMatches(query))) =>
                     {items[i].row : i \in DOMAIN items} = PublicMatches(query)]_vars

\* C15 witness: a listing asked for the tags health and fitness has just
\* returned the one counter that carries health alone, and not the other
C15_Witness ==
  /\ response.op = "findPublic" /\ response.query.tags = {"health", "fitness"}
  /\ response.page.totalItems = 1 /\ Len(response.page.items) = 1
  /\ response.page.items[1].tags = {TagObject(1)}
  /\ \E c \in counters : c.isPrivate = "false" /\ c.archivedAt = Null /\ TagsOf(c.id) = {}

\* what C16 says of the items returned, with `ties(a, b)` what it requires
\* of two rows equal on the primary key, a before b
ItemsOrdered(p, ties(_, _)) ==
  LET items == response'.page.items
      column == OrderColumn(req[p].query.sortBy)
      asc == req[p].query.sortOrder = "asc"
  IN \A i, j \in DOMAIN items :
       i < j =>
         LET a == items[i].row
             b == items[j].row
         IN /\ IF asc THEN ColumnLeq(a, b, column) ELSE ColumnLeq(b, a, column)
            /\ (/\ column # "createdAt"
                /\ ColumnLeq(a, b, column) /\ ColumnLeq(b, a, column)) => ties(a, b)

\* C16 (as claimed): the items come ordered by the primary key in the
\* requested direction, and when that key is not createdAt, items equal on it
\* come in createdAt-descending order.
C16_FindPublicOrder ==
  [][\A p \in Procs :
       Lists(p) => ItemsOrdered(p, LAMBDA a, b : a.createdAt >= b.createdAt)]_vars

\* the part of C16 that the code keeps: the order on the primary key
ItemsInPrimaryOrder ==
  [][\A p \in Procs : Lists(p) => ItemsOrdered(p, LAMBDA a, b : TRUE)]_vars

\* a listing by name has just returned two counters of one name
TiedItemsSeen ==
  /\ response.op = "findPublic" /\ response.query.sortBy = "name"
  /\ Len(response.page.items) = 2
  /\ response.page.items[1].row.name = response.page.items[2].row.name
  /\ response.page.items[1].row.createdAt # response.page.items[2].row.createdAt

\* C17 (as claimed): totalItems is the number of counters matching the
\* filter in the store state from which the page of items was read.
C17_FindPublicSnapshot ==
  [][\A p \in Procs :
       Lists(p) =>
         response'.page.totalItems = Cardinality(PublicMatches(req[p].query))]_vars

\* what C18 says of a listing that returns, with `beyond` saying whether it
\* includes its last clause: page' = max(1, page), limit' = min(50, max(1,
\* limit)); the items are positions (page'-1)*limit' .. page'*limit'-1 of an
\* ordered list of the matches, at most limit' of them; totalPages is
\* ceil(totalItems / limit'); currentPage is page'; and a page beyond
\* totalPages has no items
PageReturned(p, beyond) ==
  LET query == req[p].query
      result == response'.page
      page1 == Max(1, query.page)
      limit1 == Min(50, Max(1, query.limit))
      first == (page1 - 1) * limit1
  IN /\ Len(result.items) <= limit1
     /\ \E L \in OrderedRows(PublicMatches(query), findPublicOptions(query)) :
          result.items = [k \in 1..Max(0, Min(limit1, Len(L) - first)) |->
                            CurrentRecord(L[first + k].id)]
     /\ result.totalPages * limit1 >= result.totalItems
     /\ (result.totalPages - 1) * limit1 < result.totalItems
     /\ result.currentPage = page1
     /\ (beyond /\ page1 > result.totalPages) => result.items = <<>>

\* C18 (as claimed): the clamping, the positions returned, totalPages and
\* currentPage, and the empty page beyond totalPages.
C18_FindPublicPage ==
  [][\A p \in Procs : Lists(p) => PageReturned(p, TRUE)]_vars

\* the part of C18 that the code keeps: all but the page beyond totalPages
PageArithmetic ==
  [][\A p \in Procs : Lists(p) => PageReturned(p, FALSE)]_vars

\* page 2 of limit 1 has just returned the second of two matches
SecondPageSeen ==
  /\ response.op = "findPublic" /\ response.query.page = 2 /\ response.query.limit = 1
  /\ response.page.totalItems = 2 /\ response.page.totalPages = 2
  /\ Len(response.page.items) = 1

\* the tags associated with the counter id in a counter_tags table
TagsIn(table, id) == {ct[2] : ct \in {x \in table : x[1] = id}}

\* C19: an update by the owner that succeeds makes the counter's set of tag
\* associations exactly the given tagIds when tagIds is present (the empty
\* list included) and leaves it as it was when tagIds is absent; the
\* associations of every other counter are as they were.
C19_TagIdsReplace ==
  [][\A p \in Procs :
       (/\ req[p].op = "update" /\ req[p].pc = "write" /\ Ends(p)
        /\ response'.result = "ok") =>
          LET id == req[p].id
              tagIds == req[p].dto.tagIds
          IN /\ (tagIds # <<>>) => TagsIn(counterTags', id) = tagIds[1]
             /\ (tagIds = <<>>) => TagsIn(counterTags', id) = TagsIn(counterTags, id)
             /\ \A c \in 1..MaxCounters :
                  c # id => TagsIn(counterTags', c) = TagsIn(counterTags, c)]_vars

\* C19 witness: an update with tagIds [2] has just left its counter with the
\* tag 2 alone, beside another counter that still has its tag 1
C19_Witness ==
  /\ response.op = "update" /\ response.result = "ok"
  /\ response.dto.tagIds = <<{2}>>
  /\ TagsOf(response.id) = {2}
  /\ response.ret.tags = {TagObject(2)}
  /\ \E c \in counters : c.id # response.id /\ TagsOf(c.id) = {1}

\* candidate k of the sequence B, B-2, B-3, ..., B-10 (k = 0..9)
Candidate(B, k) == IF k = 0 THEN B ELSE B \o <<"-">> \o toString(k + 1)

\* the slug belongs to a counter other than excludeId (0: none excluded)
TakenByOther(slug, excludeId) == \E c \in counters : c.slug = slug /\ c.id # excludeId

\* C20: generateUniqueSlug(text, excludeId) tries the candidates B, B-2,
\* B-3, ..., B-10 in this order, B the base slug of the text, and returns the
\* candidate at hand at the first read that finds it with no counter other
\* than excludeId (the counter's own id on update, none on create).
C20_FirstFreeCandidate ==
  [][\A p \in Procs :
       LET r == req[p]
           n == req'[p]
       IN
       /\ (r.pc = "idle" /\ n.op = "create" /\ n.dto.slug = <<>>
             /\ n.pc \in {"gen", "write"}) =>
            /\ n.base = baseSlugOf(n.dto.name)
            /\ IF ~TakenByOther(n.base, 0)
               THEN n.pc = "write" /\ n.slug = n.base
               ELSE n.pc = "gen" /\ n.attempts = 1 /\ n.slug = Candidate(n.base, 1)
       /\ (r.pc = "idle" /\ n.op = "update" /\ n.pc = "gen") =>
            /\ n.base = baseSlugOf(n.dto.name)
            /\ n.attempts = 0 /\ n.slug = n.base
       /\ (r.pc = "gen" /\ n # r) =>
            /\ r.attempts \in 0..9
            /\ r.slug = Candidate(r.base, r.attempts)
            /\ IF ~TakenByOther(r.slug, IF r.op = "update" THEN r.id ELSE 0)
               THEN n.pc = "write" /\ n.slug = r.slug
               ELSE (r.attempts < 9) =>
                      /\ n.pc = "gen" /\ n.attempts = r.attempts + 1
                      /\ n.slug = Candidate(r.base, r.attempts + 1)]_vars

\* C20 witness: with my-run, my-run-2, ..., my-run-9 taken, a create named
\* "My Run" has just been given my-run-10
C20_Witness ==
  /\ response.op = "create" /\ response.result = "ok"
  /\ response.ret.row.slug = Candidate(my_run, 9)
  /\ \A k \in 0..8 : TakenByOther(Candidate(my_run, k), response.ret.row.id)

\* the first counter named "My Run" has my-run, the second one my-run-2, and
\* the first has just been renamed to "my-run!" and kept its slug
RenameKeepsSlugSeen ==
  /\ response.op = "update" /\ response.result = "ok"
  /\ response.dto.name = MyRunBang
  /\ Cardinality(counters) = 2
  /\ Row(response.id).slug = my_run /\ Row(response.id).name = MyRunBang
  /\ \E c \in counters : c.name = MyRun /\ c.slug = my_run_2

\* the slugs generateUniqueSlug can return for a base slug
GeneratedSlugs(B) ==
  {Candidate(B, k) : k \in 0..(maxAttempts - 1)}
    \cup {B \o <<"-">> \o TimeSuffix(t) : t \in Dates}

\* the triggers of slug recomputation on update, as the claims list them
NameChanges(dto, existing) == dto.name # <<>> /\ dto.name # existing.name
NewSlugSupplied(dto, existing) == dto.slug # <<>> /\ dto.slug # existing.slug
ResultPrivate(dto, existing) ==
  IF dto.isPrivate # "undefined" THEN dto.isPrivate = "true" ELSE existing.isPrivate = "true"
BecomesPublic(dto, existing) ==
  existing.isPrivate = "true" /\ dto.isPrivate = "false" /\ dto.slug = <<>>
Recomputed(dto, existing) ==
  NameChanges(dto, existing) \/ NewSlugSupplied(dto, existing) \/ BecomesPublic(dto, existing)
EffectiveName(dto, existing) == IF dto.name # <<>> THEN dto.name ELSE existing.name

\* what C21 says of every step, with `keeps` saying whether an update that
\* leaves the counter private and supplies no name keeps the stored slug
\* instead of generating one.
\*  - create, public, slug S supplied: S taken ends the call with Conflict,
\*    store unchanged; else the call goes to its write with S
\*  - create, private or no slug: the generator runs on the name
\*  - update by the owner, slug recomputed, public, S supplied: the call goes
\*    on with S; the pre-check and the write end with Conflict, store
\*    unchanged, when another counter has S; a write that succeeds stores S
\*  - update by the owner, slug recomputed, private or no slug: the generator
\*    runs on the effective name
SuppliedSlugRules(keeps) ==
  LET c == NewCallOf
      S == c.dto.slug
      existing == Row(c.id)
  IN
  /\ (CallStep /\ c.op = "create" /\ S # <<>> /\ c.dto.isPrivate # "true") =>
        IF TakenByOther(S, 0)
        THEN /\ AnsweredAtOnce /\ response'.result = "Conflict"
             /\ UNCHANGED <<counters, counterTags, nextId>>
        ELSE /\ ~AnsweredAtOnce /\ c.pc = "write" /\ c.slug = S
  /\ (CallStep /\ c.op = "create" /\ (S = <<>> \/ c.dto.isPrivate = "true")) =>
        /\ ~AnsweredAtOnce /\ c.pc \in {"gen", "write"}
        /\ c.base = baseSlugOf(c.dto.name)
        /\ c.slug \in GeneratedSlugs(c.base)
  /\ (OwnerCalls("update") /\ Recomputed(c.dto, existing)) =>
        IF S # <<>> /\ ~ResultPrivate(c.dto, existing)
        THEN /\ ~AnsweredAtOnce /\ c.pc \in {"precheck", "write"} /\ c.slug = S
        ELSE IF keeps /\ ResultPrivate(c.dto, existing) /\ c.dto.name = <<>>
        THEN /\ ~AnsweredAtOnce /\ c.pc = "write" /\ c.slug = existing.slug
        ELSE /\ ~AnsweredAtOnce /\ c.pc = "gen"
             /\ c.base = baseSlugOf(EffectiveName(c.dto, existing))
  /\ \A p \in Procs :
       LET r == req[p]
       IN
       /\ (r.pc = "gen" /\ req'[p] # r) =>
             /\ req'[p].pc \in {"gen", "write"}
             /\ req'[p].base = r.base /\ req'[p].slug \in GeneratedSlugs(r.base)
       /\ (r.pc = "precheck" /\ req'[p] # r) =>
             IF TakenByOther(r.slug, r.id)
             THEN /\ Ends(p) /\ response'.result = "Conflict"
                  /\ UNCHANGED <<counters, counterTags, nextId>>
             ELSE /\ req'[p].pc = "write" /\ req'[p].slug = r.slug
       /\ (r.pc = "write" /\ r.op \in {"create", "update"} /\ Ends(p)
             /\ (r.op = "update" => Row(r.id) # NoRow)) =>
             IF TakenByOther(r.slug, r.id)
             THEN /\ response'.result = "Conflict"
                  /\ UNCHANGED <<counters, counterTags, nextId>>
             ELSE /\ response'.result = "ok"
                  /\ response'.ret.row.slug = r.slug
                  /\ response'.ret.row \in counters'

PrivateKeepsSlugSeen ==
  /\ response.op = "update" /\ response.result = "ok"
  /\ response.dto.slug = my_run_2 /\ response.dto.name = <<>>
  /\ Row(response.id).isPrivate = "true" /\ Row(response.id).slug = my_run

\* p's update writes the counter in this step
UpdateWrites(p) ==
  /\ req[p].op = "update" /\ req[p].pc = "write" /\ Ends(p)
  /\ response'.result = "ok"

\* C22 (as claimed): an update that succeeds leaves the counter's slug as it
\* was unless the name changes, an explicit slug is supplied, or visibility
\* flips from private to public without an explicit slug; in each of those
\* cases the slug is the supplied one when the result is public, and
\* otherwise one generateUniqueSlug returns for the effective name.
C22_SlugRecomputedOnlyWhenTriggered ==
  [][\A p \in Procs :
       UpdateWrites(p) =>
         LET dto == req[p].dto
             before == Row(req[p].id)
             after == RowIn(counters', req[p].id)
         IN IF ~Recomputed(dto, before) THEN after.slug = before.slug
            ELSE IF dto.slug # <<>> /\ after.isPrivate = "false"
                 THEN after.slug = dto.slug
                 ELSE after.slug \in GeneratedSlugs(baseSlugOf(EffectiveName(dto, before)))]_vars

\* the part of C22 that the code keeps: without a trigger in the counter as
\* the request read it, the write stores the slug the request read
UpdateWritesSlugRead ==
  [][\A p \in Procs :
       (UpdateWrites(p) /\ ~Recomputed(req[p].dto, req[p].snap)) =>
          RowIn(counters', req[p].id).slug = req[p].snap.slug]_vars

\* the rows of a list of returned counters
RowsOf(list) == {list[i].row : i \in DOMAIN list}

CreatedAtDescending(list) ==
  \A i, j \in DOMAIN list : i < j => list[i].row.createdAt >= list[j].row.createdAt

\* C23: findMine(ownerId) returns exactly the counters whose owner is
\* ownerId, each in exactly one of the two lists, active when archivedAt is
\* null and archived when it is not, with its tags, and each list in
\* createdAt-descending order.  (The response of the step just taken is
\* compared with the store that step read.)
C23_FindMinePartition ==
  response.op = "findMine" =>
    LET active == response.mine.active
        archived == response.mine.archived
        owned == {c \in counters : c.userId = response.user}
    IN /\ response.result = "ok"
       /\ RowsOf(active) \cup RowsOf(archived) = owned
       /\ Len(active) + Len(archived) = Cardinality(owned)
       /\ \A i \in DOMAIN active :
            active[i].row.archivedAt = Null /\ active[i] = CurrentRecord(active[i].row.id)
       /\ \A i \in DOMAIN archived :
            archived[i].row.archivedAt # Null /\ archived[i] = CurrentRecord(archived[i].row.id)
       /\ CreatedAtDescending(active) /\ CreatedAtDescending(archived)

\* C23 witness: a user with two active counters created at different times
\* has just been given them, the newer first
C23_Witness ==
  /\ response.op = "findMine"
  /\ Len(response.mine.active) = 2 /\ response.mine.archived = <<>>
  /\ response.mine.active[1].row.createdAt = 1
  /\ response.mine.active[2].row.createdAt = 0

\* a user with an archived counter has just been given it alone, while the
\* other user has an active counter
MineOnlySeen ==
  /\ response.op = "findMine"
  /\ response.mine.active = <<>> /\ Len(response.mine.archived) = 1
  /\ \E c \in counters : c.userId # response.user /\ c.archivedAt = Null

\* every association row references an existing counter and an existing tag
TagRefsValid ==
  \A ct \in counterTags : Row(ct[1]) # NoRow /\ ct[2] \in Tags

\* what remove by the owner does: the call goes on to its delete, which,
\* when the counter is still there, removes that counter and exactly its
\* association rows, leaves every other counter and association as it was,
\* and leaves no counter with the removed counter's slug
RemoveDeletes ==
  /\ OwnerCalls("remove") =>
        /\ ~AnsweredAtOnce /\ NewCallOf.pc = "write"
        /\ UNCHANGED <<counters, counterTags>>
  /\ \A p \in Procs :
       (req[p].op = "remove" /\ req[p].pc = "write" /\ Ends(p)
          /\ Row(req[p].id) # NoRow) =>
            /\ response'.result = "ok"
            /\ counters' = counters \ {Row(req[p].id)}
            /\ counterTags' = {ct \in counterTags : ct[1] # req[p].id}
            /\ ~\E c \in counters' : c.slug = Row(req[p].id).slug

\* C24: remove by the owner deletes the counter together with all of its
\* CounterTag associations and nothing else, so that in every reachable state
\* each association row references an existing counter and an existing tag,
\* and afterwards no counter holds the removed counter's slug.  (No operation
\* of the service writes the tags table: Tags is fixed.)
C24_RemoveCascades == []TagRefsValid /\ [][RemoveDeletes]_vars

\* C24 witness: a tagged counter has just been removed with its association,
\* and the other counter still has its tag
C24_Witness ==
  /\ response.op = "remove" /\ response.result = "ok"
  /\ Row(response.id) = NoRow /\ TagsOf(response.id) = {}
  /\ \E c \in counters : TagsOf(c.id) # {}

\* a counter has just been created with the slug of a counter removed before
SlugReusedSeen ==
  /\ response.op = "create" /\ response.result = "ok"
  /\ response.ret.row.slug = my_run /\ response.ret.row.id = 2
  /\ Row(1) = NoRow /\ Row(2) # NoRow

\* a base slug followed by a hyphen and four digits
IsTimeSuffixed(slug, B) ==
  /\ Len(slug) = Len(B) + 5
  /\ SubSeq(slug, 1, Len(B) + 1) = B \o <<"-">>
  /\ \A i \in (Len(B) + 2)..(Len(B) + 5) : IsDigit(slug[i])

\* C25: every existence check of generateUniqueSlug is one of at most ten
\* (the request has made at most nine before it); the tenth, finding B-10
\* taken like B and B-2 .. B-9 before it, returns B, a hyphen and the last
\* four digits of the clock, without a check and without a write; and the
\* write of a create or update that comes with a slug another counter holds
\* ends with Conflict and leaves the store as it was.
C25_FallbackAfterTenChecks ==
  [][\A p \in Procs :
       LET r == req[p]
           n == req'[p]
           exclude == IF r.op = "update" THEN r.id ELSE 0
       IN
       /\ (n.pc = "gen") => n.attempts \in 0..(maxAttempts - 1)
       /\ (r.pc = "gen" /\ n # r) =>
             /\ n.pc \in {"gen", "write"} /\ n.attempts <= maxAttempts
             /\ n.pc = "gen" => n.attempts = r.attempts + 1
             /\ UNCHANGED <<counters, counterTags, nextId>>
       /\ (r.pc = "gen" /\ n # r /\ r.attempts = maxAttempts - 1
             /\ TakenByOther(r.slug, exclude)) =>
             /\ n.pc = "write" /\ n.attempts = maxAttempts
             /\ n.slug = r.base \o <<"-">> \o TimeSuffix(now)
             /\ IsTimeSuffixed(n.slug, r.base)
       /\ (r.pc = "write" /\ r.op \in {"create", "update"} /\ Ends(p)
             /\ r.attempts = maxAttempts /\ (r.op = "update" => Row(r.id) # NoRow)) =>
             IF TakenByOther(r.slug, exclude)
             THEN /\ response'.result = "Conflict"
                  /\ UNCHANGED <<counters, counterTags, nextId>>
             ELSE /\ response'.result = "ok"
                  /\ response'.ret.row.slug = r.slug]_vars

\* C25 witness: with my-run, my-run-2, ..., my-run-10 and my-run-0000 all
\* taken, a rename of the counter "Walk" to "My Run", made at time 0, has
\* just been refused with Conflict and the counter is as it was
C25_Witness ==
  /\ response.op = "update" /\ response.result = "Conflict"
  /\ response.dto.name = MyRun /\ response.dto.slug = <<>>
  /\ \A k \in 0..(maxAttempts - 1) : TakenByOther(Candidate(my_run, k), response.id)
  /\ TakenByOther(my_run \o <<"-">> \o TimeSuffix(0), response.id)
  /\ Row(response.id) # NoRow /\ Row(response.id).name = Walk

\* with the ten candidates taken, a create named "My Run" made at time 1 has
\* just been given the fallback slug my-run-0001
FallbackSlugStoredSeen ==
  /\ response.op = "create" /\ response.result = "ok"
  /\ response.ret.row.slug = my_run \o <<"-", "0", "0", "0", "1">>
  /\ \A k \in 0..(maxAttempts - 1) : TakenByOther(Candidate(my_run, k), response.ret.row.id)

\* the update supplies a start date or a duration that differs from the one
\* in the row
ChallengeParametersChange(dto, row) ==
  \/ (dto.startDate # Undef /\ dto.startDate # row.startDate)
  \/ (dto.challengeDurationDays # Undef
      /\ dto.challengeDurationDays # row.challengeDurationDays)

\* what C26 says of every step, with stored(p) the row it calls stored for
\* the update of p that writes: on a counter that was and stays a challenge
\* the write leaves challengeAchievedAt null when the parameters change and
\* as it is stored otherwise; and a non-null challengeAchievedAt in the store
\* after a step was that counter's challengeAchievedAt before it
AchievedAtSteps(stored(_)) ==
  /\ \A p \in Procs :
       UpdateWrites(p) =>
         LET dto == req[p].dto
             before == stored(p)
             after == RowIn(counters', req[p].id)
         IN (before.isChallenge = "true" /\ after.isChallenge = "true") =>
              after.challengeAchievedAt =
                 IF ChallengeParametersChange(dto, before) THEN Null
                 ELSE before.challengeAchievedAt
  /\ \A d \in counters' :
       d.challengeAchievedAt # Null =>
          \/ \E c \in counters : c.id = d.id /\ c.challengeAchievedAt = d.challengeAchievedAt
          \/ \E p \in Procs : /\ UpdateWrites(p) /\ req[p].id = d.id
                              /\ stored(p).challengeAchievedAt = d.challengeAchievedAt

AchievedAtResetOrKeptAsRead == [][AchievedAtSteps(LAMBDA p : req[p].snap)]_vars

\* an update of the start date has just reset an achievement
AchievementResetSeen ==
  /\ response.op = "update" /\ response.result = "ok" /\ response.dto.startDate = 1
  /\ Row(1).isChallenge = "true" /\ Row(1).challengeAchievedAt = Null
  /\ Row(1).startDate = 1 /\ started = 1

\* an update of the description alone has just been written and the counter,
\* whose start date another update changed, has its achievement again
AchievementRestoredSeen ==
  /\ response.op = "update" /\ response.result = "ok"
  /\ response.dto = [NoDto EXCEPT !.description = Walk]
  /\ Row(1).startDate = 1 /\ Row(1).challengeAchievedAt = 0

\* C27 (as claimed): the slug of every persisted counter, supplied or
\* generated from an accepted name of 1 to 100 characters, consists of
\* lowercase alphanumeric groups separated by single hyphens and has length
\* between 3 and 80: it is a slug the route GET /counters/c/:slug accepts.
C27_SlugWellFormed ==
  \A c \in counters : NameAccepted(c.name) => SlugAccepted(c.slug)

\* the part of C27 that the code keeps: a slug holds nothing but lowercase
\* letters, digits and hyphens, and a supplied slug that is stored is one the
\* route accepts
SlugCharactersLower ==
  \A c \in counters :
    /\ \A i \in DOMAIN c.slug :
         IsLower(c.slug[i]) \/ IsDigit(c.slug[i]) \/ c.slug[i] = "-"
    /\ c.slug = my_run => SlugAccepted(c.slug)

\* the names the callers send are names the DTO accepts
ShapeNamesAccepted == \A n \in ShapeNames : NameAccepted(n)

\* counters named "Hi" and "!" are stored with the slugs hi and the empty slug
ShortSlugsSeen ==
  /\ \E c \in counters : c.name = Hi /\ c.slug = <<"h", "i">>
  /\ \E c \in counters : c.name = Bang /\ c.slug = <<>>

\* what C28 says of the write of a create or update whose tagIds holds an
\* id of no tag: it ends with one of `results` and leaves counters, tag
\* associations and ids as they were
MissingTagRefused(results) ==
  \A p \in Procs :
    (/\ req[p].pc = "write" /\ req[p].op \in {"create", "update"} /\ Ends(p)
     /\ ~(DtoTags(req[p].dto) \subseteq Tags)) =>
        /\ response'.result \in results
        /\ UNCHANGED <<counters, counterTags, nextId>>

\* C28 (as claimed): create or update whose tagIds contains an id that
\* belongs to no existing Tag fails with NotFound, and persists no counter,
\* no field change and no change to tag associations.
C28_MissingTagNotFound == [][MissingTagRefused({"NotFound"})]_vars

\* the part of C28 that the code keeps: the call fails, as an internal error
\* (or as Conflict when the slug is taken as well), and persists nothing
MissingTagPersistsNothing ==
  [][MissingTagRefused({"InternalFailure", "Conflict"})]_vars

\* an update with tagIds [2, 3] has just failed, and its counter has the tag
\* it had
MissingTagSeen ==
  /\ response.op = "update" /\ response.result = "InternalFailure"
  /\ response.dto.tagIds = <<{2, 3}>>
  /\ Row(response.id) # NoRow /\ TagsOf(response.id) = {1}

\* what C29 says of every step, with `writers` the operations whose write
\* may change an archivedAt that is not null
ArchivedAtKept(writers) ==
  \A c \in counters : \A d \in counters' :
    (d.id = c.id /\ c.archivedAt # Null /\ d.archivedAt # c.archivedAt) =>
       \E p \in Procs : /\ req[p].op \in writers /\ req[p].pc = "write"
                        /\ req[p].id = c.id /\ Ends(p)

\* C29 (as claimed): once a counter's archivedAt is non-null it keeps that
\* exact value until an unarchive or remove of that counter; of two
\* concurrent archives with different valid dates the second to complete
\* does not overwrite the archivedAt written by the first.
C29_ArchivedAtStable == [][ArchivedAtKept({"unarchive"})]_vars

\* the part of C29 that the code keeps: only the write of an archive or of
\* an unarchive changes an archivedAt that is not null
ArchivedAtChangedByArchiveWrites == [][ArchivedAtKept({"unarchive", "archive"})]_vars

\* every counter has an id that was given out, and every association row
\* belongs to a counter that exists
NoOrphans ==
  /\ \A c \in counters : c.id \in 1..nextId
  /\ \A ct \in counterTags : Row(ct[1]) # NoRow

\* a counter that appears in a step has the next id, never one given out
\* before; and the write of an update, archive or unarchive, or the
\* increment of a view, that finds its counter gone changes nothing, the
\* owner-gated ones ending in an error
GoneStaysGone ==
  /\ \A d \in counters' :
       (~\E c \in counters : c.id = d.id) => (d.id = nextId + 1 /\ nextId' = nextId + 1)
  /\ nextId' >= nextId
  /\ \A p \in Procs :
       LET r == req[p]
       IN
       /\ (/\ r.op \in {"update", "archive", "unarchive"} /\ r.pc = "write"
           /\ Row(r.id) = NoRow /\ req'[p] # r) =>
              /\ Ends(p)
              /\ response'.result \in {"InternalFailure", "NotFound", "Conflict"}
              /\ UNCHANGED <<counters, counterTags, nextId>>
       /\ (/\ r.op = "findOneBySlugPublic" /\ r.pc \in {"increment", "incrementFailed"}
           /\ Row(r.id) = NoRow /\ req'[p] # r) =>
              /\ response' = NoResponse
              /\ UNCHANGED <<counters, counterTags, nextId>>

\* C30: once remove(id) has deleted a counter, no counter with that id
\* exists in any later state: an update, archive, unarchive or view-count
\* increment that passed its existence check before the delete and writes
\* after it neither re-creates the counter nor leaves tag associations for
\* it, and the owner-gated operation ends in an error, not in success.
C30_RemovedStaysRemoved == []NoOrphans /\ [][GoneStaysGone]_vars

\* C30 witness: an update with tagIds [2] that read its counter before a
\* remove deleted it has just failed at its write; the counter is gone and no
\* association row names it
C30_Witness ==
  /\ response.op = "update" /\ response.result = "InternalFailure"
  /\ response.dto.tagIds = <<{2}>>
  /\ response.id \in 1..nextId
  /\ Row(response.id) = NoRow /\ TagsOf(response.id) = {}

\* an archive that read its counter before a remove deleted it has just
\* failed at its write
ArchiveOfRemovedSeen ==
  /\ response.op = "archive" /\ response.result = "InternalFailure"
  /\ response.id \in 1..nextId /\ Row(response.id) = NoRow

\* an unarchive that read its counter before a remove deleted it has just
\* failed at its write
UnarchiveOfRemovedSeen ==
  /\ response.op = "unarchive" /\ response.result = "InternalFailure"
  /\ response.id \in 1..nextId /\ Row(response.id) = NoRow
====
